---------------------------- MODULE Spec2Model ----------------------------
(***************************************************************************)
(* Math-Arena: the progression store (useGameState), the simulation loop   *)
(* (GameEngine), the monster entity (Monster), the Game page and the       *)
(* question generator (QuestionGenerator), as state machines.              *)
(*                                                                         *)
(* Stores and engine are modelled as records that the operators named      *)
(* after the source's methods transform; an action applies one whole       *)
(* method (or one host callback: an animation frame, a timeout) to the     *)
(* current state.                                                          *)
(***************************************************************************)
EXTENDS Integers, Sequences, FiniteSets, TLC

VARIABLES
    game,      \* the useGameState store
    engine,    \* GameEngine.state and GameEngine.animationId
    now,       \* Date.now(), in ms
    timers,    \* the pending setTimeout callbacks of the engine
    deferred,  \* the pending setTimeout callbacks of the Game page
    frames,    \* the pending requestAnimationFrame callbacks (their ids)
    nextId,    \* the number of monsters created so far (ids are unique)
    calls,     \* the trace of the last step: updates made, callbacks invoked
    pausedAt,  \* history: the time of the pause() in effect, -1 when none
    ret,       \* what the last call of a value-returning method returned
    last,      \* the operation the last step applied (history)
    generator, \* the QuestionGenerator (questionCount)
    request    \* the call of the generator or factory to come, with its random draws

vars == <<game, engine, now, timers, deferred, frames, nextId, calls, pausedAt, ret, last,
         generator, request>>

generatorVars == <<generator, request>>

storeVars == <<game>>
engineVars == <<engine, now, timers, frames, nextId, calls, pausedAt>>

Max(a, b) == IF a >= b THEN a ELSE b
Min(a, b) == IF a <= b THEN a ELSE b

(***************************************************************************)
(* Bounds of the model.                                                    *)
(***************************************************************************)
MaxAmount == 6      \* damage / heal amounts are drawn from 0..MaxAmount
MaxAnswered == 3    \* answers given in one run of SpecStore
MaxWave == 2        \* nextWave is applied while wave < MaxWave
MaxScore == 800     \* SpecStreak: answers are given while the score stays <= MaxScore
MaxWrong == 1       \* SpecStreak: wrong answers given in one run

Phases == {"menu", "playing", "paused", "gameOver", "tutorial"}
Difficulties == {"easy", "medium", "hard"}

\* The answers a question may carry and a player may submit (-999 is the
\* value the question timer submits on a timeout).
QuestionAnswers == {7}
SubmittedAnswers == {7, 8, -999}

\* A question as the store reads it: its answer and its difficulty.
Questions == [answer : QuestionAnswers, difficulty : Difficulties]

\* currentQuestion is <<>> (null) or <<q>>.
NoQuestion == <<>>

(***************************************************************************)
(* useGameState: the initial state and the actions of the store.           *)
(***************************************************************************)
PowerUpTypes == {"freeze", "multiply", "heal", "shield"}

\* cooldown of a power-up, ms.
cooldownOf(type) ==
    CASE type = "freeze" -> 15000 [] type = "multiply" -> 30000
      [] type = "heal" -> 20000 [] type = "shield" -> 45000

\* The power-ups by type: active and lastUsed are the fields that change.
initialPowerUps == [type \in PowerUpTypes |-> [active |-> FALSE, lastUsed |-> 0]]

InitialGameState ==
    [ phase |-> "menu", score |-> 0, health |-> 5, maxHealth |-> 5,
      wave |-> 1, combo |-> 0, maxCombo |-> 0,
      currentQuestion |-> NoQuestion, monsters |-> <<>>,
      questionsAnswered |-> 0, correctAnswers |-> 0, wrongAnswers |-> 0,
      timeElapsed |-> 0, difficulty |-> "easy", isSpawningMonster |-> FALSE,
      powerUps |-> initialPowerUps ]

setPhase(s, phase) == [s EXCEPT !.phase = phase]

setCurrentQuestion(s, question) == [s EXCEPT !.currentQuestion = question]

basePointsOf(difficulty) ==
    IF difficulty = "easy" THEN 10 ELSE IF difficulty = "medium" THEN 20 ELSE 30

comboMultiplierStale(newCombo) == ((newCombo - 1) \div 5) + 1

comboMultiplierOf(newCombo) == (newCombo \div 5) + 1

answerQuestionKeepsCombo(s, answer) ==
    IF s.currentQuestion = NoQuestion
    THEN [state |-> s, result |-> FALSE]
    ELSE LET q == s.currentQuestion[1]
             isCorrect == (answer = q.answer)
             newCombo == IF isCorrect THEN s.combo + 1 ELSE s.combo
             points == IF isCorrect
                       THEN basePointsOf(q.difficulty) * comboMultiplierOf(newCombo)
                       ELSE 0
         IN  [ state |->
                 [s EXCEPT !.questionsAnswered = @ + 1,
                           !.correctAnswers = IF isCorrect THEN @ + 1 ELSE @,
                           !.wrongAnswers = IF isCorrect THEN @ ELSE @ + 1,
                           !.combo = newCombo,
                           !.maxCombo = Max(@, newCombo),
                           !.score = @ + points],
               result |-> isCorrect ]

\* answerQuestion with a slip: the answered question is cleared.
answerQuestionClearsQuestion(s, answer) ==
    IF s.currentQuestion = NoQuestion
    THEN [state |-> s, result |-> FALSE]
    ELSE LET q == s.currentQuestion[1]
             isCorrect == (answer = q.answer)
             newCombo == IF isCorrect THEN s.combo + 1 ELSE 0
             points == IF isCorrect
                       THEN basePointsOf(q.difficulty) * comboMultiplierOf(newCombo)
                       ELSE 0
         IN  [ state |->
                 [s EXCEPT !.questionsAnswered = @ + 1,
                           !.correctAnswers = IF isCorrect THEN @ + 1 ELSE @,
                           !.wrongAnswers = IF isCorrect THEN @ ELSE @ + 1,
                           !.combo = newCombo,
                           !.maxCombo = Max(@, newCombo),
                           !.score = @ + points,
                           !.currentQuestion = NoQuestion],
               result |-> isCorrect ]

\* answerQuestion with a slip: a wrong answer is not counted as wrong.
answerQuestionDropsWrong(s, answer) ==
    IF s.currentQuestion = NoQuestion
    THEN [state |-> s, result |-> FALSE]
    ELSE LET q == s.currentQuestion[1]
             isCorrect == (answer = q.answer)
             newCombo == IF isCorrect THEN s.combo + 1 ELSE 0
             points == IF isCorrect
                       THEN basePointsOf(q.difficulty) * comboMultiplierOf(newCombo)
                       ELSE 0
         IN  [ state |->
                 [s EXCEPT !.questionsAnswered = @ + 1,
                           !.correctAnswers = IF isCorrect THEN @ + 1 ELSE @,
                           !.combo = newCombo,
                           !.maxCombo = Max(@, newCombo),
                           !.score = @ + points],
               result |-> isCorrect ]

\* answerQuestion: the new store state and the returned value.
answerQuestion(s, answer) ==
    IF s.currentQuestion = NoQuestion
    THEN [state |-> s, result |-> FALSE]
    ELSE LET q == s.currentQuestion[1]
             isCorrect == (answer = q.answer)
             newCombo == IF isCorrect THEN s.combo + 1 ELSE 0
             comboMultiplier == comboMultiplierOf(newCombo)
             basePoints == basePointsOf(q.difficulty)
             points == IF isCorrect THEN basePoints * comboMultiplier ELSE 0
         IN  [ state |->
                 [s EXCEPT !.questionsAnswered = @ + 1,
                           !.correctAnswers = IF isCorrect THEN @ + 1 ELSE @,
                           !.wrongAnswers = IF isCorrect THEN @ ELSE @ + 1,
                           !.combo = newCombo,
                           !.maxCombo = Max(@, newCombo),
                           !.score = @ + points],
               result |-> isCorrect ]

takeDamageLateGameOver(s, amount) ==
    LET newHealth == Max(0, s.health - amount)
    IN  [s EXCEPT !.health = newHealth,
                  !.combo = 0,
                  !.phase = IF newHealth < 0 THEN "gameOver" ELSE @]

takeDamage(s, amount) ==
    LET newHealth == Max(0, s.health - amount)
    IN  [s EXCEPT !.health = newHealth,
                  !.combo = 0,
                  !.phase = IF newHealth <= 0 THEN "gameOver" ELSE @]

\* heal with a slip: the health is not capped at maxHealth.
healUncapped(s, amount) == [s EXCEPT !.health = s.health + amount]

heal(s, amount) == [s EXCEPT !.health = Min(s.maxHealth, s.health + amount)]

addScore(s, points) == [s EXCEPT !.score = @ + points]

\* usePowerUp at time t: the power-up of the type is activated when its
\* cooldown has passed; a heal power-up heals 2 whether it has or not.
usePowerUp(s, type, t) ==
    LET s1 == [s EXCEPT !.powerUps =
                 [p \in PowerUpTypes |->
                    IF p = type /\ t - s.powerUps[p].lastUsed >= cooldownOf(p)
                    THEN [active |-> TRUE, lastUsed |-> t]
                    ELSE s.powerUps[p]]]
    IN  IF type \in PowerUpTypes /\ type = "heal" THEN heal(s1, 2) ELSE s1

nextWave(s) == [s EXCEPT !.wave = @ + 1, !.monsters = <<>>]

addMonster(s, monster) ==
    [s EXCEPT !.monsters = Append(@, monster), !.isSpawningMonster = FALSE]

removeMonster(s, id) ==
    [s EXCEPT !.monsters = SelectSeq(@, LAMBDA m : m.id # id)]

setIsSpawningMonster(s, isSpawning) == [s EXCEPT !.isSpawningMonster = isSpawning]

\* resetGame with a slip: maxCombo is not reset.
resetGameKeepsMaxCombo(s) ==
    [s EXCEPT !.phase = "menu", !.score = 0, !.health = 5, !.wave = 1,
              !.combo = 0, !.currentQuestion = NoQuestion,
              !.monsters = <<>>, !.questionsAnswered = 0,
              !.correctAnswers = 0, !.wrongAnswers = 0, !.timeElapsed = 0,
              !.isSpawningMonster = FALSE, !.powerUps = initialPowerUps]

resetGame(s) ==
    [s EXCEPT !.phase = "menu", !.score = 0, !.health = 5, !.wave = 1,
              !.combo = 0, !.maxCombo = 0, !.currentQuestion = NoQuestion,
              !.monsters = <<>>, !.questionsAnswered = 0,
              !.correctAnswers = 0, !.wrongAnswers = 0, !.timeElapsed = 0,
              !.isSpawningMonster = FALSE, !.powerUps = initialPowerUps]

(***************************************************************************)
(* QuestionGenerator.  A value returned by Math.random() is a fraction     *)
(* <<n, d>> (n / d, with 0 <= n < d); the draws of one call are the        *)
(* sequence rnd, in the order in which the code makes them.  A text is the *)
(* sequence of the numbers and the literal pieces of its template; "x"     *)
(* and "/" stand for the multiplication and division signs.  Decimal       *)
(* numbers are kept as whole numbers of tenths, hundredths or thousandths, *)
(* and Math.PI is 355 / 113.                                               *)
(***************************************************************************)
InitialGenerator == [questionCount |-> 0]

QuestionTypes ==
    { "addition", "subtraction", "multiplication", "division", "mixed",
      "fractions", "decimals", "percentages", "word_problem", "algebra",
      "geometry" }

\* Math.floor(Math.random() * n), for the draw r.
Floor(r, n) == (r[1] * n) \div r[2]

\* Math.round(n / d), n >= 0 and d > 0: a half rounds up.
Round(n, d) == (2 * n + d) \div (2 * d)

\* Math.round((Math.random() * span + 1) * scale), for the draw r.
RoundScaled(r, span, scale) == Round((r[1] * span + r[2]) * scale, r[2])

\* A number with a fraction: units / scale.
Decimal(units, scale) == [units |-> units, scale |-> scale]

\* A question; explanation is <<>> when the question has none.
Question(id, text, answer, difficulty, type, timeLimit, category, explanation) ==
    [ id |-> id, text |-> text, answer |-> answer, difficulty |-> difficulty,
      type |-> type, timeLimit |-> timeLimit, category |-> category,
      explanation |-> explanation ]

\* adjustDifficultyForWave with a slip: wave 3 is not forced to easy.
adjustDifficultyForWaveEarly(baseDifficulty, wave) ==
    IF wave < 3 THEN "easy"
    ELSE IF wave <= 6 THEN (IF baseDifficulty = "easy" THEN "easy" ELSE "medium")
    ELSE IF wave <= 10 THEN (IF baseDifficulty = "easy" THEN "medium" ELSE "hard")
    ELSE "hard"

adjustDifficultyForWave(baseDifficulty, wave) ==
    IF wave <= 3 THEN "easy"
    ELSE IF wave <= 6 THEN (IF baseDifficulty = "easy" THEN "easy" ELSE "medium")
    ELSE IF wave <= 10 THEN (IF baseDifficulty = "easy" THEN "medium" ELSE "hard")
    ELSE "hard"

getQuestionTypes(difficulty) ==
    CASE difficulty = "easy" -> <<"addition", "subtraction", "multiplication">>
      [] difficulty = "medium" ->
           << "addition", "subtraction", "multiplication", "division",
              "fractions", "decimals", "word_problem" >>
      [] difficulty = "hard" ->
           << "addition", "subtraction", "multiplication", "division", "mixed",
              "fractions", "decimals", "percentages", "word_problem",
              "algebra", "geometry" >>
      [] OTHER -> <<"addition">>

createAdditionQuestion(id, difficulty, timeLimit, rnd) ==
    LET a == CASE difficulty = "easy" -> Floor(rnd[1], 20) + 1
               [] difficulty = "medium" -> Floor(rnd[1], 50) + 10
               [] OTHER -> Floor(rnd[1], 100) + 20
        b == CASE difficulty = "easy" -> Floor(rnd[2], 20) + 1
               [] difficulty = "medium" -> Floor(rnd[2], 50) + 10
               [] OTHER -> Floor(rnd[2], 100) + 20
    IN  Question(id, <<a, "+", b, "=", "?">>, a + b, difficulty, "addition",
                 timeLimit, "arithmetic", <<>>)

\* createSubtractionQuestion with a slip: the operands are not swapped.
createSubtractionQuestionUnswapped(id, difficulty, timeLimit, rnd) ==
    LET a == CASE difficulty = "easy" -> Floor(rnd[1], 20) + 10
               [] difficulty = "medium" -> Floor(rnd[1], 50) + 25
               [] OTHER -> Floor(rnd[1], 100) + 50
        b == CASE difficulty = "easy" -> Floor(rnd[2], 10) + 1
               [] difficulty = "medium" -> Floor(rnd[2], 25) + 5
               [] OTHER -> Floor(rnd[2], 50) + 10
    IN  Question(id, <<a, "-", b, "=", "?">>, a - b, difficulty, "subtraction",
                 timeLimit, "arithmetic", <<>>)

createSubtractionQuestion(id, difficulty, timeLimit, rnd) ==
    LET a0 == CASE difficulty = "easy" -> Floor(rnd[1], 20) + 10
                [] difficulty = "medium" -> Floor(rnd[1], 50) + 25
                [] OTHER -> Floor(rnd[1], 100) + 50
        b0 == CASE difficulty = "easy" -> Floor(rnd[2], 10) + 1
                [] difficulty = "medium" -> Floor(rnd[2], 25) + 5
                [] OTHER -> Floor(rnd[2], 50) + 10
        \* if (b > a) [a, b] = [b, a]
        a == IF b0 > a0 THEN b0 ELSE a0
        b == IF b0 > a0 THEN a0 ELSE b0
    IN  Question(id, <<a, "-", b, "=", "?">>, a - b, difficulty, "subtraction",
                 timeLimit, "arithmetic", <<>>)

createMultiplicationQuestion(id, difficulty, timeLimit, rnd) ==
    LET a == CASE difficulty = "easy" -> Floor(rnd[1], 5) + 2
               [] difficulty = "medium" -> Floor(rnd[1], 8) + 3
               [] OTHER -> Floor(rnd[1], 10) + 5
        b == CASE difficulty = "easy" -> Floor(rnd[2], 5) + 2
               [] difficulty = "medium" -> Floor(rnd[2], 8) + 3
               [] OTHER -> Floor(rnd[2], 10) + 5
    IN  Question(id, <<a, "x", b, "=", "?">>, a * b, difficulty, "multiplication",
                 timeLimit, "arithmetic", <<>>)

\* createDivisionQuestion with a slip: the divisor may be 1.
createDivisionQuestionFromOne(id, difficulty, timeLimit, rnd) ==
    LET divisor == CASE difficulty = "easy" -> Floor(rnd[1], 5) + 1
                     [] difficulty = "medium" -> Floor(rnd[1], 8) + 1
                     [] OTHER -> Floor(rnd[1], 10) + 1
        quotient == CASE difficulty = "easy" -> Floor(rnd[2], 10) + 1
                      [] difficulty = "medium" -> Floor(rnd[2], 15) + 2
                      [] OTHER -> Floor(rnd[2], 20) + 5
        dividend == divisor * quotient
    IN  Question(id, <<dividend, "/", divisor, "=", "?">>, quotient, difficulty,
                 "division", timeLimit, "arithmetic", <<>>)

createDivisionQuestion(id, difficulty, timeLimit, rnd) ==
    LET divisor == CASE difficulty = "easy" -> Floor(rnd[1], 5) + 2
                     [] difficulty = "medium" -> Floor(rnd[1], 8) + 2
                     [] OTHER -> Floor(rnd[1], 10) + 3
        quotient == CASE difficulty = "easy" -> Floor(rnd[2], 10) + 1
                      [] difficulty = "medium" -> Floor(rnd[2], 15) + 2
                      [] OTHER -> Floor(rnd[2], 20) + 5
        dividend == divisor * quotient
    IN  Question(id, <<dividend, "/", divisor, "=", "?">>, quotient, difficulty,
                 "division", timeLimit, "arithmetic", <<>>)

\* The operators and operands createMixedQuestion draws: <<a, op1, b, op2, c>>.
mixedDraws(difficulty, rnd) ==
    LET operations == <<"+", "-", "x">>
        op1 == operations[Floor(rnd[1], Len(operations)) + 1]
        op2 == operations[Floor(rnd[2], Len(operations)) + 1]
        operand(r) == CASE difficulty = "easy" -> Floor(r, 10) + 1
                        [] difficulty = "medium" -> Floor(r, 15) + 2
                        [] OTHER -> Floor(r, 20) + 5
    IN  <<operand(rnd[3]), op1, operand(rnd[4]), op2, operand(rnd[5])>>

createMixedQuestion(id, difficulty, timeLimit, rnd) ==
    LET d == mixedDraws(difficulty, rnd)
        a == d[1]
        op1 == d[2]
        b == d[3]
        op2 == d[4]
        c == d[5]
        result ==
          IF op1 = "x" \/ op2 = "x"
          THEN IF op1 = "x"
               THEN (IF op2 = "+" THEN a * b + c ELSE a * b - c)
               ELSE (IF op1 = "+" THEN a + b * c ELSE a - b * c)
          ELSE LET temp == IF op1 = "+" THEN a + b ELSE a - b
               IN  IF op2 = "+" THEN temp + c ELSE temp - c
        questionText ==
          IF op1 = "x" \/ op2 = "x"
          THEN IF op1 = "x"
               THEN <<a, "x", b, op2, c, "=", "?">>
               ELSE <<a, op1, b, "x", c, "=", "?">>
          ELSE <<a, op1, b, op2, c, "=", "?">>
    IN  IF result < 0
        THEN createAdditionQuestion(id, difficulty, timeLimit, SubSeq(rnd, 6, Len(rnd)))
        ELSE Question(id, questionText, result, difficulty, "mixed", timeLimit,
                      "arithmetic", <<>>)

createFractionsQuestion(id, difficulty, timeLimit, rnd) ==
    LET simple == <<2, 3, 4, 5, 6>>
        den1 == CASE difficulty = "easy" -> Floor(rnd[1], 8) + 2
                  [] difficulty = "medium" -> simple[Floor(rnd[1], 5) + 1]
                  [] OTHER -> Floor(rnd[1], 10) + 2
        den2 == CASE difficulty = "easy" -> den1
                  [] difficulty = "medium" -> simple[Floor(rnd[2], 5) + 1]
                  [] OTHER -> Floor(rnd[2], 10) + 2
        \* the easy case draws num1, num2 as its second and third numbers
        num1 == IF difficulty = "easy" THEN Floor(rnd[2], den1 - 1) + 1
                ELSE Floor(rnd[3], den1) + 1
        num2 == IF difficulty = "easy" THEN Floor(rnd[3], den1 - num1) + 1
                ELSE Floor(rnd[4], den2) + 1
        \* Math.round(sum * 100) / 100, in hundredths
        answerDecimal == Round(100 * (num1 * den2 + num2 * den1), den1 * den2)
        answer == answerDecimal
    IN  Question(id,
                 <<num1, "/", den1, "+", num2, "/", den2, "=", "?", "(as decimal x 100)">>,
                 answer, difficulty, "fractions", timeLimit, "fractions",
                 <<num1, "/", den1, "+", num2, "/", den2, "=", Decimal(answerDecimal, 100)>>)

createDecimalsQuestion(id, difficulty, timeLimit, rnd) ==
    LET scale == CASE difficulty = "easy" -> 10
                   [] difficulty = "medium" -> 100
                   [] OTHER -> 1000
        span == CASE difficulty = "easy" -> 10
                  [] difficulty = "medium" -> 50
                  [] OTHER -> 100
        a == RoundScaled(rnd[1], span, scale)
        b == RoundScaled(rnd[2], span, scale)
        \* Math.round((a + b) * 1000) / 1000, in thousandths
        result == (a + b) * (1000 \div scale)
        answer == result
    IN  Question(id, <<Decimal(a, scale), "+", Decimal(b, scale), "=", "?", "(x1000)">>,
                 answer, difficulty, "decimals", timeLimit, "decimals",
                 <<Decimal(a, scale), "+", Decimal(b, scale), "=", Decimal(result, 1000)>>)

createPercentagesQuestion(id, difficulty, timeLimit, rnd) ==
    LET base == CASE difficulty = "easy" -> <<10, 20, 25, 50, 100>>[Floor(rnd[1], 5) + 1]
                  [] difficulty = "medium" -> Floor(rnd[1], 200) + 50
                  [] OTHER -> Floor(rnd[1], 1000) + 100
        percentage ==
                CASE difficulty = "easy" -> <<10, 20, 25, 50>>[Floor(rnd[2], 4) + 1]
                  [] difficulty = "medium" -> <<15, 25, 30, 40, 60, 75>>[Floor(rnd[2], 6) + 1]
                  [] OTHER -> Floor(rnd[2], 95) + 5
        answer == Round(base * percentage, 100)
    IN  Question(id, <<"What is", percentage, "% of", base, "?">>, answer,
                 difficulty, "percentages", timeLimit, "percentages",
                 <<percentage, "% of", base, "=", base, "x", percentage, "/100 =", answer>>)

\* The word problems of a difficulty: text, answer, explanation.
problems(difficulty) ==
    CASE difficulty = "easy" ->
           << [ text |-> "Sarah has 15 apples. She gives away 6 apples. How many apples does she have left?",
                answer |-> 9, explanation |-> "15 - 6 = 9" ],
              [ text |-> "A box contains 8 red balls and 12 blue balls. How many balls are there in total?",
                answer |-> 20, explanation |-> "8 + 12 = 20" ],
              [ text |-> "Tom buys 4 packs of pencils. Each pack has 5 pencils. How many pencils does Tom have?",
                answer |-> 20, explanation |-> "4 x 5 = 20" ] >>
      [] difficulty = "medium" ->
           << [ text |-> "A store sells 45 books on Monday and 38 books on Tuesday. If each book costs $12, how many books were sold in total?",
                answer |-> 83, explanation |-> "45 + 38 = 83 books" ],
              [ text |-> "Lisa has $150. She spends $45 on food and $25 on clothes. How much money does she have left?",
                answer |-> 80, explanation |-> "150 - 45 - 25 = 80" ],
              [ text |-> "A recipe calls for 3/4 cup of sugar. If you want to make 4 batches, how many cups of sugar do you need? (Answer as decimal x 10)",
                answer |-> 30, explanation |-> "3/4 x 4 = 3 cups = 30 (x10)" ] >>
      [] OTHER ->
           << [ text |-> "A train travels 420 miles in 6 hours. At this rate, how many miles will it travel in 9 hours?",
                answer |-> 630, explanation |-> "420 / 6 = 70 mph, 70 x 9 = 630 miles" ],
              [ text |-> "The price of a jacket increased by 25% from $80. What is the new price?",
                answer |-> 100, explanation |-> "80 x 1.25 = $100" ],
              [ text |-> "A rectangular garden is 15 meters long and 8 meters wide. What is its area in square meters?",
                answer |-> 120, explanation |-> "15 x 8 = 120 square meters" ] >>

createWordProblemQuestion(id, difficulty, timeLimit, rnd) ==
    LET problemSet == problems(difficulty)
        selectedProblem == problemSet[Floor(rnd[1], Len(problemSet)) + 1]
    IN  Question(id, <<selectedProblem.text>>, selectedProblem.answer, difficulty,
                 "word_problem", timeLimit, "word_problems",
                 <<selectedProblem.explanation>>)

createAlgebraQuestion(id, difficulty, timeLimit, rnd) ==
    LET x0 == CASE difficulty = "easy" -> Floor(rnd[1], 10) + 1
                [] difficulty = "medium" -> Floor(rnd[1], 15) + 1
                [] OTHER -> Floor(rnd[1], 20) + 1
        a == CASE difficulty = "easy" -> Floor(rnd[2], 5) + 1
               [] difficulty = "medium" -> Floor(rnd[2], 10) + 1
               [] OTHER -> Floor(rnd[2], 15) + 2
        c == Floor(rnd[3], 10) + 1               \* hard only
        b == CASE difficulty = "easy" -> a * x0
               [] difficulty = "medium" -> Floor(rnd[3], 20) + 1
               [] OTHER -> a * x0 + c
        x == CASE difficulty = "easy" -> x0
               [] difficulty = "medium" -> b \div a
               [] OTHER -> (b - c) \div a
        text == IF difficulty = "hard"
                THEN <<"Solve for x:", a, "x", "+", Floor(rnd[4], 10) + 1, "=", b>>
                ELSE <<"Solve for x:", a, "x", "=", b>>
    IN  Question(id, text, x, difficulty, "algebra", timeLimit, "algebra",
                 <<"x =", x>>)

createGeometryQuestion(id, difficulty, timeLimit, rnd) ==
    LET shapes == CASE difficulty = "easy" -> <<"rectangle", "square">>
                    [] difficulty = "medium" -> <<"triangle", "circle">>
                    [] OTHER -> <<"cylinder">>
        selectedShape == shapes[Floor(rnd[1], Len(shapes)) + 1]
        problem ==
          CASE selectedShape = "rectangle" ->
                 LET length == Floor(rnd[2], 10) + 3
                     width == Floor(rnd[3], 8) + 2
                 IN  [ text |-> <<"Find the area of a rectangle with length", length,
                                 "and width", width>>,
                       answer |-> length * width,
                       explanation |-> <<"Area = length x width =", length, "x", width,
                                        "=", length * width>> ]
            [] selectedShape = "square" ->
                 LET side == Floor(rnd[2], 8) + 3
                 IN  [ text |-> <<"Find the perimeter of a square with side length", side>>,
                       answer |-> side * 4,
                       explanation |-> <<"Perimeter = 4 x side = 4 x", side, "=", side * 4>> ]
            [] selectedShape = "triangle" ->
                 LET base == Floor(rnd[2], 12) + 4
                     height == Floor(rnd[3], 10) + 3
                     area == (base * height) \div 2
                 IN  [ text |-> <<"Find the area of a triangle with base", base,
                                 "and height", height>>,
                       answer |-> area,
                       explanation |-> <<"Area = (base x height) / 2 = (", base, "x",
                                        height, ") / 2 =", area>> ]
            [] selectedShape = "circle" ->
                 LET radius == Floor(rnd[2], 8) + 2
                     \* Math.round(2 * Math.PI * radius * 10) / 10, in tenths
                     circumference == Round(2 * 355 * radius * 10, 113)
                 IN  [ text |-> <<"Find the circumference of a circle with radius", radius>>,
                       answer |-> Round(circumference, 10),
                       explanation |-> <<"Circumference = 2 pi r = 2 x 3.14 x", radius,
                                        "=", Decimal(circumference, 10)>> ]
            [] OTHER ->
                 LET radius == Floor(rnd[2], 6) + 2
                     height == Floor(rnd[3], 10) + 3
                     volume == Round(355 * radius * radius * height, 113)
                 IN  [ text |-> <<"Find the volume of a cylinder with radius", radius,
                                 "and height", height>>,
                       answer |-> volume,
                       explanation |-> <<"Volume = pi r^2 h = 3.14 x", radius, "^2 x",
                                        height, "=", volume>> ]
    IN  Question(id, problem.text, problem.answer, difficulty, "geometry",
                 timeLimit, "geometry", problem.explanation)

createQuestion(id, type, difficulty, timeLimit, rnd) ==
    CASE type = "addition" -> createAdditionQuestion(id, difficulty, timeLimit, rnd)
      [] type = "subtraction" -> createSubtractionQuestion(id, difficulty, timeLimit, rnd)
      [] type = "multiplication" ->
           createMultiplicationQuestion(id, difficulty, timeLimit, rnd)
      [] type = "division" -> createDivisionQuestion(id, difficulty, timeLimit, rnd)
      [] type = "mixed" -> createMixedQuestion(id, difficulty, timeLimit, rnd)
      [] type = "fractions" -> createFractionsQuestion(id, difficulty, timeLimit, rnd)
      [] type = "decimals" -> createDecimalsQuestion(id, difficulty, timeLimit, rnd)
      [] type = "percentages" -> createPercentagesQuestion(id, difficulty, timeLimit, rnd)
      [] type = "word_problem" -> createWordProblemQuestion(id, difficulty, timeLimit, rnd)
      [] type = "algebra" -> createAlgebraQuestion(id, difficulty, timeLimit, rnd)
      [] type = "geometry" -> createGeometryQuestion(id, difficulty, timeLimit, rnd)
      [] OTHER -> createAdditionQuestion(id, difficulty, timeLimit, rnd)

\* generateQuestion at time t: the new generator and the returned question.
\* rnd[1] is the draw for the type, the rest the draws of the creator.
generateQuestion(g, difficulty, wave, rnd, t) ==
    LET questionCount == g.questionCount + 1
        id == <<"q", questionCount, t>>
        timeLimit == IF difficulty = "easy" THEN 30000
                     ELSE IF difficulty = "medium" THEN 20000 ELSE 15000
        effectiveDifficulty == adjustDifficultyForWave(difficulty, wave)
        questionTypes == getQuestionTypes(effectiveDifficulty)
        type == questionTypes[Floor(rnd[1], Len(questionTypes)) + 1]
    IN  [ generator |-> [g EXCEPT !.questionCount = questionCount],
          result |-> createQuestion(id, type, effectiveDifficulty, timeLimit, Tail(rnd)) ]

(***************************************************************************)
(* Geometry (gameUtils.ts) and the monster entity (Monster.ts).            *)
(* Positions are kept to whole pixels: the fraction of an interpolated     *)
(* coordinate is dropped.                                                  *)
(***************************************************************************)
CANVAS_WIDTH == 800
CANVAS_HEIGHT == 600
PLAYER_RADIUS == 30
SpawnMargin == 250
TotalTravelTime == 5000
AnimationDuration == 800
FrameMs == 17          \* one tick: 16.67 ms, rounded up

PlayerPosition == [x |-> CANVAS_WIDTH \div 2, y |-> CANVAS_HEIGHT \div 2]

MonsterTypes == {"basic", "fast", "tank", "boss"}

\* n / d with the fraction dropped (towards zero), d > 0.
TruncDiv(n, d) == IF n >= 0 THEN n \div d ELSE -((-n) \div d)

\* Math.ceil with a slip: the quotient is rounded down.
FloorDiv(n, d) == n \div d

\* ceil(n / d), n >= 0 and d > 0.
CeilDiv(n, d) == (n + d - 1) \div d

\* The eligible types with a slip: fast from wave 2.
eligibleTypesEarlyFast(wave) ==
    <<"basic">>
      \o (IF wave >= 2 THEN <<"fast">> ELSE <<>>)
      \o (IF wave >= 5 THEN <<"tank">> ELSE <<>>)
      \o (IF wave % 10 = 0 THEN <<"boss">> ELSE <<>>)

\* The types createMonster chooses among at a wave, in the order it pushes them.
eligibleTypes(wave) ==
    <<"basic">>
      \o (IF wave >= 3 THEN <<"fast">> ELSE <<>>)
      \o (IF wave >= 5 THEN <<"tank">> ELSE <<>>)
      \o (IF wave % 10 = 0 THEN <<"boss">> ELSE <<>>)

baseHealthOf(type) ==
    CASE type = "fast" -> 1 [] type = "tank" -> 5 [] type = "boss" -> 15 [] OTHER -> 2

sizeOf(type) ==
    CASE type = "fast" -> 20 [] type = "tank" -> 40 [] type = "boss" -> 60 [] OTHER -> 25

\* healthMultiplier, in tenths: 0.8, 1.0, 1.2.
\* speed, in hundredths of exactSpeed (spawnDistance / 5000).
speedOf(type) ==
    CASE type = "tank" -> 90 [] type = "boss" -> 80 [] OTHER -> 100

healthMultiplierTenths(difficulty) ==
    IF difficulty = "easy" THEN 8 ELSE IF difficulty = "medium" THEN 10 ELSE 12

\* createMonster, with the random draws as parameters: the spawn point that
\* generateMonsterSpawnPoint drew and the index pick (1..number of eligible
\* types) drawn for the type. id and t are the fresh id and Date.now() of
\* the Monster constructor.
createMonster(wave, difficulty, spawnPoint, pick, id, t) ==
    LET type == eligibleTypes(wave)[pick]
        health == CeilDiv(baseHealthOf(type) * healthMultiplierTenths(difficulty), 10)
    IN  [ id |-> id, x |-> spawnPoint.x, y |-> spawnPoint.y,
          health |-> health, maxHealth |-> health, speed |-> speedOf(type),
          targetX |-> PlayerPosition.x, targetY |-> PlayerPosition.y,
          type |-> type, size |-> sizeOf(type),
          spawn |-> <<>>,                \* spawnX, spawnY: undefined
          isDestroying |-> FALSE, destructionStartTime |-> 0,
          spawnTime |-> t ]

getMonsterDamage(monsterType) ==
    CASE monsterType = "fast" -> 1
      [] monsterType = "tank" -> 2
      [] monsterType = "boss" -> 3
      [] OTHER -> 1

\* Interpolate with a slip: the progress is not capped at 1.
InterpolateUncapped(from, to, elapsedTime) ==
    from + TruncDiv((to - from) * elapsedTime, TotalTravelTime)

\* spawn + (target - spawn) * min(elapsed / 5000, 1), one coordinate.
Interpolate(from, to, elapsedTime) ==
    from + TruncDiv((to - from) * Min(elapsedTime, TotalTravelTime), TotalTravelTime)

\* Monster.update at time t (deltaTime is not read): the target follows the player, the spawn point
\* is recorded when spawnX or spawnY is falsy (undefined, or 0), and the
\* position is interpolated by the time elapsed since the spawn.
monsterUpdate(m, deltaTime, playerPosition, t) ==
    LET elapsedTime == t - m.spawnTime
        spawn == IF m.spawn = <<>> \/ m.spawn[1] = 0 \/ m.spawn[2] = 0
                 THEN <<m.x, m.y>> ELSE m.spawn
    IN  [m EXCEPT !.targetX = playerPosition.x,
                  !.targetY = playerPosition.y,
                  !.spawn = spawn,
                  !.x = Interpolate(spawn[1], playerPosition.x, elapsedTime),
                  !.y = Interpolate(spawn[2], playerPosition.y, elapsedTime)]

\* takeDamage with a slip: the health is not kept at 0 or above.
monsterTakeDamageUnclamped(m, amount) == [m EXCEPT !.health = m.health - amount]

monsterTakeDamage(m, amount) == [m EXCEPT !.health = Max(0, m.health - amount)]

\* distance <= size + playerRadius, compared as squares.
isAttacking(m, playerPosition, playerRadius) ==
    (m.x - playerPosition.x) * (m.x - playerPosition.x)
      + (m.y - playerPosition.y) * (m.y - playerPosition.y)
      <= (m.size + playerRadius) * (m.size + playerRadius)

(***************************************************************************)
(* GameEngine.  Its methods transform a record w of the engine's state     *)
(* (engine), the host's pending timeouts (timers) and animation frames     *)
(* (frames), and the trace of the step (calls).                            *)
(***************************************************************************)
InitialEngineState ==
    [ monsters |-> <<>>, lastUpdateTime |-> 0, isRunning |-> FALSE,
      animationId |-> 0 ]      \* animationId 0: null

Event(ev, id, n) == [ev |-> ev, id |-> id, n |-> n]

\* What a callback given to setCallbacks may do when the engine invokes it.
Reactions == {"none", "pause", "stop"}

\* Array.findIndex by id: 0 when there is none (the code's -1).
findIndex(monsters, monsterId) ==
    IF \E i \in 1..Len(monsters) : monsters[i].id = monsterId
    THEN CHOOSE i \in 1..Len(monsters) :
           /\ monsters[i].id = monsterId
           /\ \A j \in 1..(i - 1) : monsters[j].id # monsterId
    ELSE 0

\* Array.splice(i, 1).
RemoveAt(seq, i) == SubSeq(seq, 1, i - 1) \o SubSeq(seq, i + 1, Len(seq))

pause(w) ==
    [w EXCEPT !.engine.isRunning = FALSE,
              !.engine.animationId = 0,
              !.frames = @ \ {w.engine.animationId}]

\* stop with a slip: the monster list is not cleared.
stopKeepsMonsters(w) ==
    [w EXCEPT !.engine.isRunning = FALSE,
              !.engine.animationId = 0,
              !.frames = @ \ {w.engine.animationId}]

stop(w) ==
    [w EXCEPT !.engine.isRunning = FALSE,
              !.engine.monsters = <<>>,
              !.engine.animationId = 0,
              !.frames = @ \ {w.engine.animationId}]

\* The onMonsterDestroyed callback is invoked.
onMonsterDestroyed(w, monsterId) ==
    [w EXCEPT !.calls = Append(@, Event("onMonsterDestroyed", monsterId, 0))]

\* The onMonsterReachPlayer callback is invoked; the callback may call back
\* into the engine (react).
onMonsterReachPlayer(w, monsterId, damage, react) ==
    LET w1 == [w EXCEPT !.calls = Append(@, Event("onMonsterReachPlayer", monsterId, damage))]
    IN  CASE react = "pause" -> pause([w1 EXCEPT !.calls = Append(@, Event("pause", 0, 0))])
          [] react = "stop" -> stop([w1 EXCEPT !.calls = Append(@, Event("stop", 0, 0))])
          [] OTHER -> w1

\* Variants of destroyMonster with a slip: the animation is skipped; the
\* callback is invoked at once on the animated path too.
destroyMonsterAtOnce(w, monsterId, withAnimation, t) ==
    LET monsterIndex == findIndex(w.engine.monsters, monsterId)
    IN  IF monsterIndex = 0 THEN w
        ELSE onMonsterDestroyed(
               [w EXCEPT !.engine.monsters = RemoveAt(@, monsterIndex)], monsterId)

destroyMonsterEarlyCallback(w, monsterId, withAnimation, t) ==
    LET monsterIndex == findIndex(w.engine.monsters, monsterId)
    IN  IF monsterIndex = 0 THEN w
        ELSE IF withAnimation /\ ~w.engine.monsters[monsterIndex].isDestroying
        THEN onMonsterDestroyed(
               [w EXCEPT !.engine.monsters[monsterIndex].isDestroying = TRUE,
                         !.engine.monsters[monsterIndex].destructionStartTime = t,
                         !.timers = @ \cup {[monsterId |-> monsterId,
                                             due |-> t + AnimationDuration]}],
               monsterId)
        ELSE onMonsterDestroyed(
               [w EXCEPT !.engine.monsters = RemoveAt(@, monsterIndex)], monsterId)

destroyMonster(w, monsterId, withAnimation, t) ==
    LET monsterIndex == findIndex(w.engine.monsters, monsterId)
    IN  IF monsterIndex = 0 THEN w
        ELSE IF withAnimation /\ ~w.engine.monsters[monsterIndex].isDestroying
        THEN \* start the destruction animation; remove after it
             [w EXCEPT !.engine.monsters[monsterIndex].isDestroying = TRUE,
                       !.engine.monsters[monsterIndex].destructionStartTime = t,
                       !.timers = @ \cup {[monsterId |-> monsterId,
                                           due |-> t + AnimationDuration]}]
        ELSE \* immediate removal
             onMonsterDestroyed(
               [w EXCEPT !.engine.monsters = RemoveAt(@, monsterIndex)], monsterId)

\* The callback destroyMonster gave to setTimeout.
destroyTimeout(w, monsterId) ==
    LET currentIndex == findIndex(w.engine.monsters, monsterId)
        w1 == IF currentIndex # 0
              THEN [w EXCEPT !.engine.monsters = RemoveAt(@, currentIndex)]
              ELSE w
    IN  onMonsterDestroyed(w1, monsterId)

\* damageMonster: the new state and the returned value.
damageMonster(w, monsterId, damage, t) ==
    LET i == findIndex(w.engine.monsters, monsterId)
    IN  IF i = 0 THEN [w |-> w, result |-> FALSE]
        ELSE LET m == monsterTakeDamage(w.engine.monsters[i], damage)
                 isDestroyed == m.health <= 0
                 w1 == [w EXCEPT !.engine.monsters[i] = m]
             IN  [ w |-> IF isDestroyed THEN destroyMonster(w1, monsterId, TRUE, t) ELSE w1,
                   result |-> isDestroyed ]

spawnMonster(w, wave, difficulty, spawnPoint, pick, id, t) ==
    [w EXCEPT !.engine.monsters =
                Append(@, createMonster(wave, difficulty, spawnPoint, pick, id, t))]

\* The forEach of update, at index i of the array arr it iterates; n is the
\* array's length when the loop began.  splice shortens arr under the loop
\* (an index past the end is not visited); after a stop() the engine holds a
\* new array, and arr is no longer the engine's (aliased is FALSE).
RECURSIVE forEachMonster(_, _, _, _, _, _, _, _)
forEachMonster(w, arr, aliased, i, n, deltaTime, t, react) ==
    IF i > n THEN w
    ELSE IF i > Len(arr) \/ arr[i].isDestroying
    THEN forEachMonster(w, arr, aliased, i + 1, n, deltaTime, t, react)
    ELSE
      LET monster == monsterUpdate(arr[i], deltaTime, PlayerPosition, t)
          arr1 == [arr EXCEPT ![i] = monster]
          w1 == [w EXCEPT !.engine.monsters = IF aliased THEN arr1 ELSE @,
                          !.calls = Append(@, Event("update", monster.id, 0))]
      IN  IF isAttacking(monster, PlayerPosition, PLAYER_RADIUS)
          THEN LET damage == getMonsterDamage(monster.type)
                   w2 == onMonsterReachPlayer(w1, monster.id, damage, react)
                   aliased2 == aliased /\ react # "stop"
                   w3 == destroyMonster(w2, monster.id, FALSE, t)
                   arr3 == IF aliased2 THEN w3.engine.monsters ELSE arr1
               IN  forEachMonster(w3, arr3, aliased2, i + 1, n, deltaTime, t, react)
          ELSE forEachMonster(w1, arr1, aliased, i + 1, n, deltaTime, t, react)

\* update with a slip: the forEach does not test isDestroying.
RECURSIVE forEachMonsterUnfrozen(_, _, _, _, _, _, _, _)
forEachMonsterUnfrozen(w, arr, aliased, i, n, deltaTime, t, react) ==
    IF i > n THEN w
    ELSE IF i > Len(arr)
    THEN forEachMonsterUnfrozen(w, arr, aliased, i + 1, n, deltaTime, t, react)
    ELSE
      LET monster == monsterUpdate(arr[i], deltaTime, PlayerPosition, t)
          arr1 == [arr EXCEPT ![i] = monster]
          w1 == [w EXCEPT !.engine.monsters = IF aliased THEN arr1 ELSE @,
                          !.calls = Append(@, Event("update", monster.id, 0))]
      IN  IF isAttacking(monster, PlayerPosition, PLAYER_RADIUS)
          THEN LET damage == getMonsterDamage(monster.type)
                   w2 == onMonsterReachPlayer(w1, monster.id, damage, react)
                   aliased2 == aliased /\ react # "stop"
                   w3 == destroyMonster(w2, monster.id, FALSE, t)
                   arr3 == IF aliased2 THEN w3.engine.monsters ELSE arr1
               IN  forEachMonsterUnfrozen(w3, arr3, aliased2, i + 1, n, deltaTime, t, react)
          ELSE forEachMonsterUnfrozen(w1, arr1, aliased, i + 1, n, deltaTime, t, react)

updateUnfrozen(w, deltaTime, t, react) ==
    forEachMonsterUnfrozen(w, w.engine.monsters, TRUE, 1, Len(w.engine.monsters),
                           deltaTime, t, react)

update(w, deltaTime, t, react) ==
    forEachMonster(w, w.engine.monsters, TRUE, 1, Len(w.engine.monsters),
                   deltaTime, t, react)

\* requestAnimationFrame's handle: one that no pending frame has.
freshFrame(w) ==
    CHOOSE f \in 1..(Cardinality(w.frames) + 1) :
      /\ f \notin w.frames
      /\ \A g \in 1..(f - 1) : g \in w.frames

\* gameLoop at time t.  deltaTime is in hundredths of a millisecond
\* (16.67 ms is 1667).
gameLoop(w, t, react) ==
    IF ~w.engine.isRunning THEN w
    ELSE LET deltaTime == Min((t - w.engine.lastUpdateTime) * 100, 1667)
             w1 == [w EXCEPT !.engine.lastUpdateTime = t]
             w2 == update(w1, deltaTime, t, react)
             id == freshFrame(w2)
         IN  [w2 EXCEPT !.engine.animationId = id, !.frames = @ \cup {id}]

start(w, t, react) ==
    gameLoop([w EXCEPT !.engine.isRunning = TRUE, !.engine.lastUpdateTime = t],
             t, react)

(***************************************************************************)
(* The store's operations as actions.                                      *)
(***************************************************************************)
SetPhase(p) ==
    /\ game' = setPhase(game, p)
    /\ last' = "setPhase"
    /\ UNCHANGED <<generatorVars, ret, deferred, engineVars>>

SetCurrentQuestion(q) ==
    /\ game' = setCurrentQuestion(game, q)
    /\ last' = "setCurrentQuestion"
    /\ UNCHANGED <<generatorVars, ret, deferred, engineVars>>

AnswerQuestion(a) ==
    /\ game' = answerQuestion(game, a).state
    /\ ret' = answerQuestion(game, a).result
    /\ last' = "answerQuestion"
    /\ UNCHANGED <<generatorVars, deferred, engineVars>>

TakeDamage(amount) ==
    /\ game' = takeDamage(game, amount)
    /\ last' = "takeDamage"
    /\ UNCHANGED <<generatorVars, ret, deferred, engineVars>>

Heal(amount) ==
    /\ game' = heal(game, amount)
    /\ last' = "heal"
    /\ UNCHANGED <<generatorVars, ret, deferred, engineVars>>

NextWave ==
    /\ game.wave < MaxWave
    /\ game' = nextWave(game)
    /\ last' = "nextWave"
    /\ UNCHANGED <<generatorVars, ret, deferred, engineVars>>

ResetGame ==
    /\ game' = resetGame(game)
    /\ last' = "resetGame"
    /\ UNCHANGED <<generatorVars, ret, deferred, engineVars>>

UsePowerUp(type) ==
    /\ game' = usePowerUp(game, type, now)
    /\ last' = "usePowerUp"
    /\ UNCHANGED <<generatorVars, ret, deferred, engineVars>>

InitStore ==
    /\ game = InitialGameState
    /\ engine = InitialEngineState
    /\ now = 0
    /\ timers = {}
    /\ deferred = {}
    /\ frames = {}
    /\ nextId = 0
    /\ calls = <<>>
    /\ pausedAt = -1
    /\ ret = FALSE
    /\ last = "init"
    /\ generator = InitialGenerator
    /\ request = <<>>

NextStore ==
    \/ \E p \in Phases : SetPhase(p)
    \/ \E q \in Questions : SetCurrentQuestion(<<q>>)
    \/ SetCurrentQuestion(NoQuestion)
    \/ \E a \in SubmittedAnswers :
          game.questionsAnswered < MaxAnswered /\ AnswerQuestion(a)
    \/ \E amount \in 0..MaxAmount : TakeDamage(amount)
    \/ \E amount \in 0..MaxAmount : Heal(amount)
    \/ NextWave
    \/ ResetGame

SpecStore == InitStore /\ [][NextStore]_vars

(***************************************************************************)
(* SpecStreak: the store driven by questions and answers alone, for as     *)
(* long as the score stays within MaxScore, so that long combos happen.    *)
(***************************************************************************)
NextStreak ==
    \/ \E q \in Questions : SetCurrentQuestion(<<q>>)
    \/ \E a \in SubmittedAnswers :
          /\ answerQuestion(game, a).state.score <= MaxScore
          /\ answerQuestion(game, a).state.wrongAnswers <= MaxWrong
          /\ AnswerQuestion(a)

SpecStreak == InitStore /\ [][NextStreak]_vars

(***************************************************************************)
(* The engine's operations and the host's callbacks as actions.            *)
(***************************************************************************)
W == [engine |-> engine, timers |-> timers, frames |-> frames, calls |-> <<>>]

Becomes(w) ==
    /\ engine' = w.engine
    /\ timers' = w.timers
    /\ frames' = w.frames
    /\ calls' = w.calls

HasEvent(trace, ev) == \E i \in 1..Len(trace) : trace[i].ev = ev

\* pausedAt after a step with trace `trace`: a stop() ends a pause, a pause()
\* of a running engine begins one.
pausedAfter(trace, wasRunning, before) ==
    IF HasEvent(trace, "stop") THEN -1
    ELSE IF HasEvent(trace, "pause") THEN (IF wasRunning THEN now ELSE before)
    ELSE before

Start(react) ==
    /\ Becomes(start(W, now, react))
    /\ pausedAt' = pausedAfter(start(W, now, react).calls, TRUE, -1)
    /\ last' = "start"
    /\ UNCHANGED <<generatorVars, now, nextId, ret, storeVars, deferred>>

Pause ==
    /\ Becomes(pause(W))
    /\ pausedAt' = IF engine.isRunning THEN now ELSE pausedAt
    /\ last' = "pause"
    /\ UNCHANGED <<generatorVars, now, nextId, ret, storeVars, deferred>>

Stop ==
    /\ Becomes(stop(W))
    /\ pausedAt' = -1
    /\ last' = "stop"
    /\ UNCHANGED <<generatorVars, now, nextId, ret, storeVars, deferred>>

SpawnMonster(wave, difficulty, spawnPoint, pick) ==
    /\ pick \in 1..Len(eligibleTypes(wave))
    /\ Becomes(spawnMonster(W, wave, difficulty, spawnPoint, pick, nextId + 1, now))
    /\ nextId' = nextId + 1
    /\ last' = "spawnMonster"
    /\ UNCHANGED <<generatorVars, now, pausedAt, ret, storeVars, deferred>>

DestroyMonster(monsterId, withAnimation) ==
    /\ Becomes(destroyMonster(W, monsterId, withAnimation, now))
    /\ last' = "destroyMonster"
    /\ UNCHANGED <<generatorVars, now, nextId, pausedAt, ret, storeVars, deferred>>

DamageMonster(monsterId, damage) ==
    /\ Becomes(damageMonster(W, monsterId, damage, now).w)
    /\ ret' = damageMonster(W, monsterId, damage, now).result
    /\ last' = "damageMonster"
    /\ UNCHANGED <<generatorVars, now, nextId, pausedAt, storeVars, deferred>>

\* The host runs the animation frame f.
Frame(f, react) ==
    /\ f \in frames
    /\ LET w == gameLoop([W EXCEPT !.frames = @ \ {f}], now, react)
       IN  /\ Becomes(w)
           /\ pausedAt' = pausedAfter(w.calls, engine.isRunning, pausedAt)
    /\ last' = "frame"
    /\ UNCHANGED <<generatorVars, now, nextId, ret, storeVars, deferred>>

\* The host runs the timeout tm, which is due.
Timeout(tm) ==
    /\ tm \in timers
    /\ tm.due <= now
    /\ Becomes(destroyTimeout([W EXCEPT !.timers = @ \ {tm}], tm.monsterId))
    /\ last' = "timeout"
    /\ UNCHANGED <<generatorVars, now, nextId, pausedAt, ret, storeVars, deferred>>

\* Time passes: by d ms, or up to the next timeout if that is due sooner.
\* A timeout runs at the time it is due.
AdvanceTime(d, maxTime) ==
    /\ \A tm \in timers : tm.due > now
    /\ now + d <= maxTime
    /\ now' = IF \E tm \in timers : tm.due < now + d
              THEN CHOOSE u \in {tm.due : tm \in timers} :
                     \A tm \in timers : u <= tm.due
              ELSE now + d
    /\ calls' = <<>>
    /\ last' = "time"
    /\ UNCHANGED <<generatorVars, engine, timers, frames, nextId, pausedAt, ret, storeVars, deferred>>

(***************************************************************************)
(* SpecEngine: the engine under its API, animation frames, timeouts and    *)
(* the passing of time.                                                    *)
(***************************************************************************)
MaxMonsters == 2    \* monsters spawned in one run
MaxTime == 5600     \* time passes while now <= MaxTime
MaxFrames == 1      \* start() is called while fewer frames are pending

Delays == {4800}
EngineWaves == {1}
EngineDifficulties == {"easy"}
EngineSpawnPoints == {[x |-> 0 - SpawnMargin, y |-> CANVAS_HEIGHT \div 2]}

InitEngine ==
    /\ game = InitialGameState
    /\ engine = InitialEngineState
    /\ now = 0
    /\ timers = {}
    /\ deferred = {}
    /\ frames = {}
    /\ nextId = 0
    /\ calls = <<>>
    /\ pausedAt = -1
    /\ ret = FALSE
    /\ last = "init"
    /\ generator = InitialGenerator
    /\ request = <<>>

NextEngine ==
    \/ Cardinality(frames) < MaxFrames /\ Start("none")
    \/ Pause
    \/ Stop
    \/ \E wave \in EngineWaves, difficulty \in EngineDifficulties,
          spawnPoint \in EngineSpawnPoints, pick \in 1..4 :
          nextId < MaxMonsters /\ SpawnMonster(wave, difficulty, spawnPoint, pick)
    \/ \E monsterId \in 1..MaxMonsters, withAnimation \in BOOLEAN :
          DestroyMonster(monsterId, withAnimation)
    \/ \E f \in frames : Frame(f, "none")
    \/ \E tm \in timers : Timeout(tm)
    \/ \E d \in Delays : AdvanceTime(d, MaxTime)

SpecEngine == InitEngine /\ [][NextEngine]_vars

(***************************************************************************)
(* SpecTick: the tick.  Monsters of every type are spawned, frames run as  *)
(* time passes, and the callbacks may call pause() or stop().              *)
(***************************************************************************)
MaxTickMonsters == 3   \* monsters spawned in one run of SpecTick

TickWaves == {10}

NextTick ==
    \/ \E react \in Reactions : Cardinality(frames) < MaxFrames /\ Start(react)
    \/ Pause
    \/ Stop
    \/ \E wave \in TickWaves, difficulty \in EngineDifficulties,
          spawnPoint \in EngineSpawnPoints, pick \in 1..4 :
          nextId < MaxTickMonsters /\ SpawnMonster(wave, difficulty, spawnPoint, pick)
    \/ \E f \in frames, react \in Reactions : Frame(f, react)
    \/ \E d \in Delays : AdvanceTime(d, MaxTime)

SpecTick == InitEngine /\ [][NextTick]_vars

(***************************************************************************)
(* SpecMove: monsters of every type, created at spawn points at different  *)
(* distances (one with a coordinate 0), and updated at any moments.        *)
(***************************************************************************)
MaxMoveMonsters == 1   \* monsters spawned in one run of SpecMove
MaxMoveTime == 6250    \* time passes while now <= MaxMoveTime

MoveDelays == {1250, 4999}
MoveWaves == {10}
MoveSpawnPoints ==
    { [x |-> 0 - SpawnMargin, y |-> CANVAS_HEIGHT \div 2],
      [x |-> CANVAS_WIDTH \div 2, y |-> 0 - SpawnMargin],
      [x |-> 0, y |-> 0 - SpawnMargin] }

\* Monster.update is called on the listed monster monsterId.
UpdateMonster(monsterId) ==
    /\ findIndex(engine.monsters, monsterId) # 0
    /\ LET i == findIndex(engine.monsters, monsterId)
       IN  engine' = [engine EXCEPT !.monsters[i] =
                        monsterUpdate(@, 0, PlayerPosition, now)]
    /\ calls' = <<Event("update", monsterId, 0)>>
    /\ last' = "update"
    /\ UNCHANGED <<generatorVars, now, timers, frames, nextId, pausedAt, ret, storeVars, deferred>>

NextMove ==
    \/ \E wave \in MoveWaves, difficulty \in EngineDifficulties,
          spawnPoint \in MoveSpawnPoints, pick \in 1..4 :
          nextId < MaxMoveMonsters /\ SpawnMonster(wave, difficulty, spawnPoint, pick)
    \/ \E monsterId \in 1..MaxMoveMonsters : UpdateMonster(monsterId)
    \/ \E d \in MoveDelays : AdvanceTime(d, MaxMoveTime)

SpecMove == InitEngine /\ [][NextMove]_vars

(***************************************************************************)
(* SpecDamage: monsters of every type are damaged and destroyed, by ids    *)
(* that are listed and by ids that are not, while destruction timeouts     *)
(* run.                                                                    *)
(***************************************************************************)
MaxDamageMonsters == 1   \* monsters spawned in one run of SpecDamage

DamageAmounts == {0, 1, 3}

NextDamage ==
    \/ \E wave \in TickWaves, difficulty \in EngineDifficulties,
          spawnPoint \in EngineSpawnPoints, pick \in 1..4 :
          nextId < MaxDamageMonsters /\ SpawnMonster(wave, difficulty, spawnPoint, pick)
    \/ \E monsterId \in 1..MaxDamageMonsters, damage \in DamageAmounts :
          DamageMonster(monsterId, damage)
    \/ \E monsterId \in 1..MaxDamageMonsters, withAnimation \in BOOLEAN :
          DestroyMonster(monsterId, withAnimation)
    \/ \E tm \in timers : Timeout(tm)
    \/ \E d \in Delays : AdvanceTime(d, MaxTime)

SpecDamage == InitEngine /\ [][NextDamage]_vars

(***************************************************************************)
(* The Game page (Game.tsx): its handlers and the effects it defers with   *)
(* setTimeout.  A deferred effect carries the phase its closure captured   *)
(* when it was scheduled (guard), or no guard.  The question generator is  *)
(* a draw from OrchQuestions.  The monsters of the model carry no          *)
(* equation, so handleAnswer's target is the store's first monster.        *)
(***************************************************************************)
MaxOrchAnswered == 10   \* SpecOrch: answers handled in one game

OrchQuestions == {[answer |-> 7, difficulty |-> "easy"]}
ReachDamages == {1, 3}

Deferred(effect, delay, guard) == [effect |-> effect, delay |-> delay, guard |-> guard]

generateNextQuestion(s, question) == setCurrentQuestion(s, <<question>>)

\* GameCanvas.handleMonsterDestroyed and Game.handleMonsterDestroyed, for
\* every onMonsterDestroyed of the trace.
RECURSIVE handleMonsterDestroyed(_, _)
handleMonsterDestroyed(s, trace) ==
    IF trace = <<>> THEN s
    ELSE LET s1 == IF Head(trace).ev = "onMonsterDestroyed"
                   THEN addScore(removeMonster(s, Head(trace).id), 5 * s.wave)
                   ELSE s
         IN  handleMonsterDestroyed(s1, Tail(trace))

\* The mount effect of the page.
GameMount ==
    /\ game.phase = "menu"
    /\ \E q \in OrchQuestions :
         game' = setCurrentQuestion(setPhase(resetGame(game), "playing"), <<q>>)
    /\ last' = "mount"
    /\ UNCHANGED <<generatorVars, ret, deferred, engineVars>>

HandleAnswer(answer) ==
    /\ game.phase # "menu"
    /\ game.currentQuestion # NoQuestion
    /\ LET r == answerQuestion(game, answer)
           guard == <<game.phase>>
       IN  IF r.result
           THEN IF game.monsters # <<>>
                THEN LET targetMonster == game.monsters[1]
                         w == destroyMonster(W, targetMonster.id, FALSE, now)
                         s1 == handleMonsterDestroyed(r.state, w.calls)
                     IN  /\ Becomes(w)
                         /\ game' = setCurrentQuestion(
                                      removeMonster(s1, targetMonster.id), NoQuestion)
                         /\ deferred' = deferred \cup
                              { Deferred("setCurrentQuestion(generateNextQuestion())",
                                         100, guard),
                                Deferred("generateNextQuestion", 100, guard) }
                ELSE /\ game' = setCurrentQuestion(r.state, NoQuestion)
                     /\ deferred' = deferred \cup
                          {Deferred("generateNextQuestion", 100, guard)}
                     /\ UNCHANGED <<engine, timers, frames, calls>>
           ELSE /\ game' = takeDamage(r.state, 1)
                /\ deferred' = deferred \cup
                     {Deferred("generateNextQuestion", 100, guard)}
                /\ UNCHANGED <<engine, timers, frames, calls>>
    /\ ret' = answerQuestion(game, answer).result
    /\ last' = "handleAnswer"
    /\ UNCHANGED <<generatorVars, now, nextId, pausedAt>>

\* The engine has invoked onMonsterReachPlayer(damage).
HandleMonsterReachPlayer(damage) ==
    /\ game.phase = "playing"
    /\ game' = setCurrentQuestion(takeDamage(game, damage), NoQuestion)
    /\ deferred' = deferred \cup {Deferred("generateNextQuestion", 500, <<>>)}
    /\ last' = "handleMonsterReachPlayer"
    /\ UNCHANGED <<generatorVars, ret, engineVars>>

\* The wave progression effect.
WaveEffect ==
    /\ game.phase = "playing"
    /\ \A i \in 1..Len(game.monsters) : game.monsters[i].isDestroying
    /\ game.currentQuestion = NoQuestion
    /\ ~game.isSpawningMonster
    /\ game.questionsAnswered % 10 = 0
    /\ game.questionsAnswered > 0
    /\ deferred' = deferred \cup {Deferred("nextWave", 1500, <<game.phase>>)}
    /\ last' = "waveEffect"
    /\ UNCHANGED <<generatorVars, game, ret, engineVars>>

\* The host runs the deferred effect tm.
RunDeferred(tm) ==
    /\ tm \in deferred
    /\ deferred' = deferred \ {tm}
    /\ IF tm.guard # <<>> /\ tm.guard[1] # "playing"
       THEN game' = game
       ELSE \E q \in OrchQuestions :
              game' = CASE tm.effect = "nextWave" ->
                             generateNextQuestion(nextWave(game), q)
                        [] tm.effect = "setCurrentQuestion(generateNextQuestion())" ->
                             setCurrentQuestion(generateNextQuestion(game, q), NoQuestion)
                        [] tm.effect = "setIsSpawningMonster(false)" ->
                             setIsSpawningMonster(game, FALSE)
                        [] OTHER -> generateNextQuestion(game, q)
    /\ last' = "deferred"
    /\ UNCHANGED <<generatorVars, ret, engineVars>>

HandlePause ==
    /\ game.phase = "playing"
    /\ game' = setPhase(game, "paused")
    /\ last' = "handlePause"
    /\ UNCHANGED <<generatorVars, ret, deferred, engineVars>>

HandleResume ==
    /\ game.phase = "paused"
    /\ game' = setPhase(game, "playing")
    /\ last' = "handleResume"
    /\ UNCHANGED <<generatorVars, ret, deferred, engineVars>>

HandleQuitGame ==
    /\ game.phase # "menu"
    /\ game' = resetGame(setPhase(game, "menu"))
    /\ last' = "handleQuitGame"
    /\ UNCHANGED <<generatorVars, ret, deferred, engineVars>>

\* The game over effect navigates to the results; the page's cleanup runs.
GameOverNavigate ==
    /\ game.phase = "gameOver"
    /\ game' = setPhase(game, "menu")
    /\ last' = "navigate"
    /\ UNCHANGED <<generatorVars, ret, deferred, engineVars>>

NextOrch ==
    \/ GameMount
    \/ \E answer \in SubmittedAnswers :
          game.questionsAnswered < MaxOrchAnswered /\ HandleAnswer(answer)
    \/ \E damage \in ReachDamages : HandleMonsterReachPlayer(damage)
    \/ WaveEffect
    \/ \E tm \in deferred : RunDeferred(tm)
    \/ HandlePause
    \/ HandleResume
    \/ HandleQuitGame
    \/ GameOverNavigate

SpecOrch == InitStore /\ [][NextOrch]_vars

(***************************************************************************)
(* SpecSpawn: the Game page with the monsters of a wave.  The spawn effect *)
(* asks the engine for a monster when a question is current and no monster *)
(* is listed; the engine notifies GameCanvas (onStateUpdate), which adds   *)
(* the monster to the store.  A right answer destroys the monster.  No     *)
(* time passes for the engine (no animation frame runs), so that no        *)
(* monster reaches the player.                                             *)
(***************************************************************************)
MaxSpawnAnswered == 10   \* SpecSpawn: answers handled in one game

SpawnAnswers == {7, 8}

\* GameCanvas's onStateUpdate: every monster of the engine that the list
\* captured at mount (an empty list) does not hold is added to the store.
RECURSIVE onStateUpdate(_, _)
onStateUpdate(s, engineMonsters) ==
    IF engineMonsters = <<>> THEN s
    ELSE onStateUpdate(addMonster(s, Head(engineMonsters)), Tail(engineMonsters))

\* The spawn effect of the page.
SpawnEffect(spawnPoint, pick) ==
    /\ game.phase = "playing"
    /\ game.currentQuestion # NoQuestion
    /\ Len(game.monsters) = 0
    /\ ~game.isSpawningMonster
    /\ Len(engine.monsters) = 0
    /\ pick \in 1..Len(eligibleTypes(game.wave))
    /\ LET w == spawnMonster(W, game.wave, game.difficulty, spawnPoint, pick,
                             nextId + 1, now)
       IN  /\ Becomes(w)
           /\ game' = onStateUpdate(setIsSpawningMonster(game, TRUE), w.engine.monsters)
    /\ nextId' = nextId + 1
    /\ deferred' = deferred \cup {Deferred("setIsSpawningMonster(false)", 100, <<>>)}
    /\ last' = "spawnEffect"
    /\ UNCHANGED <<generatorVars, now, pausedAt, ret>>

NextSpawn ==
    \/ GameMount
    \/ \E answer \in SpawnAnswers :
          game.questionsAnswered < MaxSpawnAnswered /\ HandleAnswer(answer)
    \/ \E spawnPoint \in EngineSpawnPoints : SpawnEffect(spawnPoint, 1)
    \/ WaveEffect
    \/ \E tm \in deferred : RunDeferred(tm)

SpecSpawn == InitStore /\ [][NextSpawn]_vars

(***************************************************************************)
(* The question generator under one call.  The arguments of the call and   *)
(* the numbers Math.random() returns during it are drawn in the initial    *)
(* state (request); the action applies the method to them.                 *)
(***************************************************************************)
TypeScale == 11       \* the draw for the type is one of 0/11 .. 10/11
GenScale == 3         \* SpecGen: an operand's draw is one of 0/3 .. 2/3
CreateScale == 8      \* SpecCreate: an operand's draw is one of 0/8 .. 7/8
OperatorScale == 3    \* the draw for an operator of a mixed question
FallbackScale == 2    \* the draws of the addition a mixed question falls back to
MaxGenWave == 12      \* SpecGen: generateQuestion is called at waves 0..MaxGenWave

Grid(d) == {<<n, d>> : n \in 0..(d - 1)}

\* The sequences of draws, draw i being of the grid scales[i].
RECURSIVE Draws(_)
Draws(scales) ==
    IF scales = <<>> THEN {<<>>}
    ELSE {<<r>> \o t : r \in Grid(Head(scales)), t \in Draws(Tail(scales))}

\* The grids of the numbers the creator of a type draws, operands on grid s.
drawScales(type, s) ==
    CASE type = "mixed" ->
           <<OperatorScale, OperatorScale, s, s, s, FallbackScale, FallbackScale>>
      [] type \in {"fractions", "algebra"} -> <<s, s, s, s>>
      [] type = "geometry" -> <<s, s, s>>
      [] type = "word_problem" -> <<s>>
      [] OTHER -> <<s, s>>

timeLimitOf(difficulty) ==
    IF difficulty = "easy" THEN 30000
    ELSE IF difficulty = "medium" THEN 20000 ELSE 15000

\* The initial state but for request.
InitIdle ==
    /\ game = InitialGameState
    /\ engine = InitialEngineState
    /\ now = 0
    /\ timers = {}
    /\ deferred = {}
    /\ frames = {}
    /\ nextId = 0
    /\ calls = <<>>
    /\ pausedAt = -1
    /\ ret = FALSE
    /\ last = "init"
    /\ generator = InitialGenerator

GenWaves == 0..MaxGenWave

\* The type generateQuestion(difficulty, wave) picks with the draw r.
typePicked(difficulty, wave, r) ==
    LET questionTypes == getQuestionTypes(adjustDifficultyForWave(difficulty, wave))
    IN  questionTypes[Floor(r, Len(questionTypes)) + 1]

\* The calls of generateQuestion: every difficulty, wave and draw for the
\* type, with the draws of the creator of the type picked.
GenRequest(difficulty, wave, rnd) ==
    [method |-> "generateQuestion", difficulty |-> difficulty, wave |-> wave, rnd |-> rnd]

InitGen ==
    /\ InitIdle
    /\ \E difficulty \in Difficulties, wave \in GenWaves, r \in Grid(TypeScale) :
         \E t \in Draws(drawScales(typePicked(difficulty, wave, r), GenScale)) :
           request = <<GenRequest(difficulty, wave, <<r>> \o t)>>

GenerateQuestion ==
    /\ last = "init"
    /\ request # <<>>
    /\ request[1].method = "generateQuestion"
    /\ LET r == generateQuestion(generator, request[1].difficulty, request[1].wave,
                                 request[1].rnd, now)
       IN  /\ generator' = r.generator
           /\ ret' = r.result
    /\ last' = "generateQuestion"
    /\ UNCHANGED <<request, deferred, storeVars, engineVars>>

NextGen == GenerateQuestion

SpecGen == InitGen /\ [][NextGen]_vars

(***************************************************************************)
(* SpecCreate: createQuestion applied to every type at every difficulty.   *)
(***************************************************************************)
CreateRequest(type, difficulty, rnd) ==
    [ method |-> "createQuestion", id |-> <<"q", 1, 0>>, type |-> type,
      difficulty |-> difficulty, timeLimit |-> timeLimitOf(difficulty), rnd |-> rnd ]

InitCreate ==
    /\ InitIdle
    /\ \E type \in QuestionTypes, difficulty \in Difficulties :
         \E t \in Draws(drawScales(type, CreateScale)) :
           request = <<CreateRequest(type, difficulty, t)>>

CreateQuestion ==
    /\ last = "init"
    /\ request # <<>>
    /\ request[1].method = "createQuestion"
    /\ ret' = createQuestion(request[1].id, request[1].type, request[1].difficulty,
                             request[1].timeLimit, request[1].rnd)
    /\ last' = "createQuestion"
    /\ UNCHANGED <<generator, request, deferred, storeVars, engineVars>>

NextCreate == CreateQuestion

SpecCreate == InitCreate /\ [][NextCreate]_vars

(***************************************************************************)
(* C1: takeDamage(amount), amount >= 0, sets health to max(0, health -     *)
(* amount) and combo to 0, and sets phase to gameOver exactly when the     *)
(* resulting health is <= 0 (otherwise the phase is left as it was).       *)
(***************************************************************************)
C1_TakeDamage ==
    [][\A amount \in 0..MaxAmount :
         TakeDamage(amount) =>
           /\ game'.health = (IF game.health - amount > 0
                               THEN game.health - amount ELSE 0)
           /\ game'.combo = 0
           /\ (game'.health <= 0 => game'.phase = "gameOver")
           /\ (game'.health > 0 => game'.phase = game.phase)
           /\ (amount = game.health =>
                  game'.health = 0 /\ game'.phase = "gameOver")]_vars

\* takeDamage has driven the health to 0 and the phase to gameOver.
C1_Witness ==
    /\ last = "takeDamage"
    /\ game.health = 0
    /\ game.phase = "gameOver"
    /\ game.combo = 0
    /\ game.maxCombo > 0

(***************************************************************************)
(* C2: with a current question, answerQuestion(a) with the right answer    *)
(* increases combo by exactly 1, does not decrease the score and returns   *)
(* true; with another answer it sets combo to 0, leaves the score          *)
(* unchanged and returns false.                                            *)
(***************************************************************************)
C2_AnswerQuestion ==
    [][\A a \in SubmittedAnswers :
         (AnswerQuestion(a) /\ game.currentQuestion # NoQuestion) =>
           IF a = game.currentQuestion[1].answer
           THEN /\ game'.combo = game.combo + 1
                /\ game'.score >= game.score
                /\ ret' = TRUE
           ELSE /\ game'.combo = 0
                /\ game'.score = game.score
                /\ ret' = FALSE]_vars

\* A wrong answer has just reset a combo that had been built up.
C2_Witness ==
    /\ last = "answerQuestion"
    /\ ret = FALSE
    /\ game.currentQuestion # NoQuestion
    /\ game.combo = 0
    /\ game.maxCombo >= 2
    /\ game.wrongAnswers = 1

(***************************************************************************)
(* C3: a correct answer adds basePoints * (floor(newCombo / 5) + 1) to the *)
(* score, newCombo being the combo after the increment and basePoints      *)
(* 10, 20, 30 for easy, medium, hard: the multiplier is 1 for newCombo     *)
(* 0..4 and 2 for 5..9, and from combo 24 a correct easy answer awards 60  *)
(* points and leaves combo 25.                                             *)
(***************************************************************************)
C3_Score ==
    [][\A a \in SubmittedAnswers :
         ( /\ AnswerQuestion(a)
           /\ game.currentQuestion # NoQuestion
           /\ a = game.currentQuestion[1].answer ) =>
           LET d == game.currentQuestion[1].difficulty
               base == CASE d = "easy" -> 10 [] d = "medium" -> 20 [] d = "hard" -> 30
               newCombo == game.combo + 1
               gained == game'.score - game.score
           IN  /\ game'.combo = newCombo
               /\ gained = base * ((newCombo \div 5) + 1)
               /\ (newCombo \in 0..4 => gained = base)
               /\ (newCombo \in 5..9 => gained = base * 2)
               /\ (game.combo = 24 /\ d = "easy" =>
                      gained = 60 /\ game'.combo = 25)]_vars

\* The 25th correct answer in a row, on an easy question.
C3_Witness ==
    /\ last = "answerQuestion"
    /\ ret = TRUE
    /\ game.combo = 25
    /\ game.currentQuestion # NoQuestion
    /\ game.currentQuestion[1].difficulty = "easy"

(***************************************************************************)
(* Vocabulary of the engine claims.                                        *)
(***************************************************************************)
IdsOf(monsters) == {monsters[i].id : i \in 1..Len(monsters)}

Count(trace, ev, id) ==
    Cardinality({i \in 1..Len(trace) : trace[i].ev = ev /\ trace[i].id = id})

Reentered(trace) == HasEvent(trace, "pause") \/ HasEvent(trace, "stop")

\* The step ran a tick: a start(), or a frame of a running engine.
TickRan == last' = "start" \/ (last' = "frame" /\ engine.isRunning)

\* The monster m as a position update at time t leaves it.
UpdatedAt(m, t) == monsterUpdate(m, 0, PlayerPosition, t)

(***************************************************************************)
(* C4: in a tick, every non-destroying monster that collides with the      *)
(* avatar after its position update causes exactly one                     *)
(* onMonsterReachPlayer call in that tick, with the damage of its type     *)
(* (fast 1, tank 2, boss 3, otherwise 1), and is removed from the list in  *)
(* that tick with no destruction animation; also when several monsters     *)
(* collide in the same tick.  (Ticks whose callbacks do not call back      *)
(* into the engine.)                                                       *)
(***************************************************************************)
C4_CollisionReported ==
    [][(TickRan /\ ~Reentered(calls')) =>
         \A i \in 1..Len(engine.monsters) :
           LET m == engine.monsters[i]
               damage == CASE m.type = "fast" -> 1 [] m.type = "tank" -> 2
                           [] m.type = "boss" -> 3 [] OTHER -> 1
           IN  (~m.isDestroying
                  /\ isAttacking(UpdatedAt(m, now), PlayerPosition, PLAYER_RADIUS)) =>
                 /\ Count(calls', "onMonsterReachPlayer", m.id) = 1
                 /\ \A k \in 1..Len(calls') :
                      (calls'[k].ev = "onMonsterReachPlayer" /\ calls'[k].id = m.id)
                        => calls'[k].n = damage
                 /\ m.id \notin IdsOf(engine'.monsters)
                 /\ timers' = timers]_vars

(***************************************************************************)
(* C5: within one tick all position updates complete before the first      *)
(* collision callback fires, and the collision callbacks of the tick fire  *)
(* in insertion order.  (Ticks whose callbacks do not call back into the   *)
(* engine.)                                                                *)
(***************************************************************************)
C5_UpdatesBeforeCallbacks ==
    [][(TickRan /\ ~Reentered(calls')) =>
         \A i \in 1..Len(calls'), j \in 1..Len(calls') :
           (i < j /\ calls'[i].ev = "onMonsterReachPlayer") =>
             /\ calls'[j].ev # "update"
             /\ calls'[j].ev = "onMonsterReachPlayer" =>
                  findIndex(engine.monsters, calls'[i].id)
                    < findIndex(engine.monsters, calls'[j].id)]_vars

(***************************************************************************)
(* C6: destroyMonster(id, true) on a listed, non-destroying monster leaves *)
(* it in the list, marked as being destroyed, until 800 ms have elapsed,   *)
(* and it is absent once they have: no other step than a stop() or a       *)
(* further destroyMonster removes it before, and the timeout that runs     *)
(* 800 ms after the call removes it.  destroyMonster(id, false) on such a  *)
(* monster removes it before returning.                                    *)
(***************************************************************************)
C6_AnimatedRemoval ==
    [][/\ \A id \in IdsOf(engine.monsters) :
            LET i == findIndex(engine.monsters, id)
            IN  ~engine.monsters[i].isDestroying =>
                  /\ DestroyMonster(id, TRUE) =>
                       /\ Len(engine'.monsters) = Len(engine.monsters)
                       /\ engine'.monsters[i].id = id
                       /\ engine'.monsters[i].isDestroying
                       /\ engine'.monsters[i].destructionStartTime = now
                       /\ [monsterId |-> id, due |-> now + 800] \in timers'
                  /\ DestroyMonster(id, FALSE) => id \notin IdsOf(engine'.monsters)
       /\ \A i \in 1..Len(engine.monsters) :
            LET m == engine.monsters[i]
            IN  m.isDestroying =>
                  /\ now <= m.destructionStartTime + 800
                  /\ now' <= m.destructionStartTime + 800
                  /\ (\/ last' \in {"start", "pause", "spawnMonster", "frame", "time"}
                      \/ \E tm \in timers : tm.monsterId # m.id /\ Timeout(tm))
                       => \E k \in 1..Len(engine'.monsters) : engine'.monsters[k] = m
                  /\ (now = m.destructionStartTime + 800 /\ last' = "time") => now' = now
       /\ \A tm \in timers :
            Timeout(tm) => /\ now = tm.due
                           /\ tm.monsterId \notin IdsOf(engine'.monsters)]_vars

\* The timeout has removed a monster 800 ms after its animated destruction
\* began, while another monster stays in the list.
C6_Witness ==
    /\ last = "timeout"
    /\ now = 800
    /\ 1 \notin IdsOf(engine.monsters)
    /\ 2 \in IdsOf(engine.monsters)

(***************************************************************************)
(* C7: on the animated path destroyMonster does not invoke                 *)
(* onMonsterDestroyed during the call; the timeout it schedules invokes    *)
(* the callback, once, exactly 800 ms after the call, in the step that     *)
(* removes the monster from the list.                                      *)
(***************************************************************************)
C7_CallbackAfterAnimation ==
    [][/\ \A id \in IdsOf(engine.monsters) :
            (/\ ~engine.monsters[findIndex(engine.monsters, id)].isDestroying
             /\ DestroyMonster(id, TRUE))
              => /\ calls' = <<>>
                 /\ \E tm \in timers' \ timers :
                      tm.monsterId = id /\ tm.due = now + 800
       /\ \A tm \in timers :
            Timeout(tm) =>
              /\ now = tm.due
              /\ calls' = <<[ev |-> "onMonsterDestroyed", id |-> tm.monsterId, n |-> 0]>>
              /\ tm.monsterId \in IdsOf(engine.monsters) =>
                   /\ engine.monsters[findIndex(engine.monsters, tm.monsterId)].isDestroying
                   /\ now = engine.monsters[findIndex(engine.monsters, tm.monsterId)]
                                .destructionStartTime + 800
                   /\ tm.monsterId \notin IdsOf(engine'.monsters)]_vars

\* The timeout of an animated destruction has just invoked the callback and
\* emptied the list.
C7_Witness ==
    /\ last = "timeout"
    /\ calls = <<[ev |-> "onMonsterDestroyed", id |-> 1, n |-> 0]>>
    /\ nextId = 1
    /\ engine.monsters = <<>>
    /\ engine.isRunning

(***************************************************************************)
(* C8: destroyMonster on a monster that is already being destroyed is a    *)
(* no-op, for either value of withAnimation.                               *)
(***************************************************************************)
C8_DestroyingNoOp ==
    [][\A id \in IdsOf(engine.monsters), withAnimation \in BOOLEAN :
         (/\ engine.monsters[findIndex(engine.monsters, id)].isDestroying
          /\ DestroyMonster(id, withAnimation))
           => /\ engine' = engine
              /\ timers' = timers
              /\ calls' = <<>>]_vars

(***************************************************************************)
(* C9: pause() and a later start(), after any wall-clock time, preserve    *)
(* the monsters: at the first tick after the resume every monster is       *)
(* where it was at the pause, up to one tick of motion, and a pending      *)
(* destruction animation has not removed its monster during the pause.     *)
(***************************************************************************)
C9_PausePreserves ==
    [][pausedAt >= 0 =>
         /\ last' = "timeout" => IdsOf(engine'.monsters) = IdsOf(engine.monsters)
         /\ last' = "start" =>
              \A i \in 1..Len(engine.monsters) :
                LET m == engine.monsters[i]
                IN  (~m.isDestroying /\ m.spawnTime <= pausedAt) =>
                      \E t \in pausedAt..(pausedAt + FrameMs) :
                        IF isAttacking(UpdatedAt(m, t), PlayerPosition, PLAYER_RADIUS)
                        THEN m.id \notin IdsOf(engine'.monsters)
                        ELSE \E k \in 1..Len(engine'.monsters) :
                               /\ engine'.monsters[k].id = m.id
                               /\ engine'.monsters[k].x = UpdatedAt(m, t).x
                               /\ engine'.monsters[k].y = UpdatedAt(m, t).y]_vars

(***************************************************************************)
(* C10: after pause() or stop() returns no update step runs until start()  *)
(* is called: not in the rest of a tick whose callback called it, and not  *)
(* in a frame that was already scheduled.                                  *)
(***************************************************************************)
C10_NoUpdateAfterPause ==
    [][/\ \A i \in 1..Len(calls'), j \in 1..Len(calls') :
            (i < j /\ calls'[i].ev \in {"pause", "stop"})
              => calls'[j].ev \notin {"update", "onMonsterReachPlayer"}
       /\ (~engine.isRunning /\ last' # "start") =>
            /\ ~HasEvent(calls', "update")
            /\ \A k \in 1..Len(engine'.monsters) :
                 \A i \in 1..Len(engine.monsters) :
                   engine'.monsters[k].id = engine.monsters[i].id =>
                     /\ engine'.monsters[k].x = engine.monsters[i].x
                     /\ engine'.monsters[k].y = engine.monsters[i].y]_vars

(***************************************************************************)
(* C11: stop() leaves the engine not running with an empty monster list,   *)
(* whatever monsters, destroying or not, were listed; an empty list stays  *)
(* empty under every step but a spawnMonster, so that a later start(), a   *)
(* frame or a pending timeout brings no earlier monster back.              *)
(***************************************************************************)
C11_StopClears ==
    [][/\ last' = "stop" => (~engine'.isRunning /\ engine'.monsters = <<>>)
       /\ (engine.monsters = <<>> /\ last' # "spawnMonster")
            => engine'.monsters = <<>>]_vars

\* start() after a stop() that cleared a monster whose destruction timeout
\* is still pending: the list is empty.
C11_Witness ==
    /\ last = "start"
    /\ engine.isRunning
    /\ engine.monsters = <<>>
    /\ nextId = 2
    /\ Cardinality(timers) = 2

(***************************************************************************)
(* C12: when the timeout of an animated destruction runs and its monster   *)
(* is no longer in the list (the engine was stopped, or the monster was    *)
(* removed otherwise), it has no effect: it removes nothing and does not   *)
(* invoke onMonsterDestroyed.                                              *)
(***************************************************************************)
C12_StaleTimeout ==
    [][\A tm \in timers :
         (Timeout(tm) /\ tm.monsterId \notin IdsOf(engine.monsters))
           => (engine' = engine /\ calls' = <<>>)]_vars

(***************************************************************************)
(* C13: a deferred effect of the Game page (the next question 100 ms after *)
(* an answer, the next question 500 ms after a monster reached the player, *)
(* the wave advance 1500 ms after the wave's completion) is dropped when   *)
(* the phase is not playing at the moment it runs: it then sets no current *)
(* question and does not increment the wave.                               *)
(***************************************************************************)
C13_StaleDeferredDropped ==
    [][\A tm \in deferred :
         (RunDeferred(tm) /\ game.phase # "playing")
           => /\ game'.currentQuestion = game.currentQuestion
              /\ game'.wave = game.wave]_vars

(***************************************************************************)
(* Vocabulary of the movement claims.                                      *)
(***************************************************************************)
\* from + (to - from) * clamp(elapsed / 5000, 0, 1), to whole pixels.
Lerp(from, to, elapsed) ==
    LET e == IF elapsed < 0 THEN 0 ELSE IF elapsed > 5000 THEN 5000 ELSE elapsed
    IN  IF to >= from THEN from + (((to - from) * e) \div 5000)
        ELSE from - (((from - to) * e) \div 5000)

\* The position the monster m was created at: its position until its first
\* update, the spawn position recorded since.
Origin(m) == IF m.spawn = <<>> THEN <<m.x, m.y>> ELSE m.spawn

\* The listed monster with this id.
MonsterOf(e, monsterId) == e.monsters[findIndex(e.monsters, monsterId)]

(***************************************************************************)
(* C14: every update of a non-destroying monster puts it at                *)
(* spawn + (target - spawn) x clamp(elapsed / 5000 ms, 0, 1), where spawn  *)
(* is the position it was created at (and stays the recorded spawn         *)
(* position) and target is the avatar's position: a function of the        *)
(* elapsed time only.                                                      *)
(***************************************************************************)
C14_PositionByElapsedTime ==
    [][\A monsterId \in IdsOf(engine.monsters) :
         (UpdateMonster(monsterId) /\ ~MonsterOf(engine, monsterId).isDestroying) =>
           LET m == MonsterOf(engine, monsterId)
               after == MonsterOf(engine', monsterId)
           IN  /\ after.spawn = Origin(m)
               /\ after.x = Lerp(Origin(m)[1], 400, now - m.spawnTime)
               /\ after.y = Lerp(Origin(m)[2], 300, now - m.spawnTime)]_vars

C16_SlowTypesArriveLater ==
    [][\A monsterId \in IdsOf(engine.monsters) :
         LET m == MonsterOf(engine, monsterId)
         IN  (/\ UpdateMonster(monsterId)
              /\ m.type \in {"tank", "boss"}
              /\ now - m.spawnTime = 5000) =>
               LET after == MonsterOf(engine', monsterId)
               IN  ~(after.x = 400 /\ after.y = 300)]_vars

(***************************************************************************)
(* C17: a tick moves each monster by no more than the distance that        *)
(* corresponds to the clamped deltaTime of 16.67 ms, also when it follows  *)
(* a long gap without ticks: no monster jumps ahead by the length of the   *)
(* gap (and none is reported as colliding that was farther from colliding  *)
(* than that distance).                                                    *)
(***************************************************************************)
C17_ClampedStep ==
    [][(last' = "frame" /\ engine.isRunning) =>
         \A i \in 1..Len(engine.monsters) :
           LET m == engine.monsters[i]
               dx == IF Origin(m)[1] >= 400 THEN Origin(m)[1] - 400 ELSE 400 - Origin(m)[1]
               dy == IF Origin(m)[2] >= 300 THEN Origin(m)[2] - 300 ELSE 300 - Origin(m)[2]
               step == (((dx + dy) * 17) \div 5000) + 1
               reach == m.size + 30 + step
           IN  ~m.isDestroying =>
                 IF m.id \in IdsOf(engine'.monsters)
                 THEN LET after == MonsterOf(engine', m.id)
                      IN  (after.x - m.x) * (after.x - m.x)
                            + (after.y - m.y) * (after.y - m.y) <= step * step
                 ELSE (m.x - 400) * (m.x - 400) + (m.y - 300) * (m.y - 300)
                        <= reach * reach]_vars

(***************************************************************************)
(* C18: while a listed monster is marked isDestroying no step changes its  *)
(* position, and no tick updates it or reports it as reaching the player.  *)
(***************************************************************************)
C18_DestroyingFrozen ==
    [][\A i \in 1..Len(engine.monsters) :
         LET m == engine.monsters[i]
         IN  m.isDestroying =>
               /\ \A k \in 1..Len(engine'.monsters) :
                    engine'.monsters[k].id = m.id =>
                      /\ engine'.monsters[k].x = m.x
                      /\ engine'.monsters[k].y = m.y
               /\ Count(calls', "update", m.id) = 0
               /\ Count(calls', "onMonsterReachPlayer", m.id) = 0]_vars

\* A frame of the running engine has passed over a monster that is being
\* destroyed and would collide if it were updated: it is where it was.
C18_Witness ==
    /\ last = "frame"
    /\ engine.isRunning
    /\ Len(engine.monsters) = 1
    /\ engine.monsters[1].isDestroying
    /\ engine.monsters[1].x = -250
    /\ isAttacking(UpdatedAt(engine.monsters[1], now), PlayerPosition, PLAYER_RADIUS)
    /\ calls = <<>>

C20_DamageResult ==
    [][/\ \A monsterId \in 1..(nextId + 1), damage \in DamageAmounts :
            DamageMonster(monsterId, damage) =>
              IF monsterId \in IdsOf(engine.monsters)
              THEN LET m == MonsterOf(engine, monsterId)
                       health == IF m.health > damage THEN m.health - damage ELSE 0
                   IN  /\ ret' = (health = 0)
                       /\ health = 0 =>
                            /\ monsterId \in IdsOf(engine'.monsters)
                            /\ MonsterOf(engine', monsterId).isDestroying
                            /\ calls' = <<>>
              ELSE /\ engine' = engine /\ timers' = timers /\ calls' = <<>>
                   /\ ret' = FALSE
       /\ \A monsterId \in 1..(nextId + 1), withAnimation \in BOOLEAN :
            (DestroyMonster(monsterId, withAnimation)
               /\ monsterId \notin IdsOf(engine.monsters))
              => (engine' = engine /\ timers' = timers /\ calls' = <<>>)]_vars

(***************************************************************************)
(* Vocabulary of the wave claims.                                          *)
(***************************************************************************)
\* The timeout tm of the wave effect runs and invokes nextWave().
WaveAdvances(tm) ==
    /\ RunDeferred(tm)
    /\ tm.effect = "nextWave"
    /\ tm.guard = <<"playing">>

\* No monster of the list is alive (not being destroyed).
NoActiveMonster(monsters) ==
    \A i \in 1..Len(monsters) : monsters[i].isDestroying

(***************************************************************************)
(* C21: nextWave() increments the wave by exactly 1, leaves score, health  *)
(* and combo unchanged and clears the live monster list: after it the      *)
(* store's monster list and the engine's monster list are both empty.      *)
(* (Stated for a wave that advances while the phase is playing.)           *)
(***************************************************************************)
C21_NextWaveClears ==
    [][\A tm \in deferred :
         (WaveAdvances(tm) /\ game.phase = "playing")
           => /\ game'.wave = game.wave + 1
              /\ game'.score = game.score
              /\ game'.health = game.health
              /\ game'.combo = game.combo
              /\ game'.monsters = <<>>
              /\ engine'.monsters = <<>>]_vars

(***************************************************************************)
(* C22: nextWave is invoked only at a moment when 10 questions have been   *)
(* answered since the last wave boundary, no monster that is not being     *)
(* destroyed remains, and no question is pending.                          *)
(***************************************************************************)
C22_WaveComplete ==
    [][\A tm \in deferred :
         WaveAdvances(tm)
           => /\ game.questionsAnswered > 0
              /\ game.questionsAnswered % 10 = 0
              /\ NoActiveMonster(game.monsters)
              /\ NoActiveMonster(engine.monsters)
              /\ game.currentQuestion = NoQuestion]_vars

(***************************************************************************)
(* C23: the phase changes only along menu -> playing, playing -> paused,   *)
(* paused -> playing, playing -> gameOver, gameOver -> menu, menu ->       *)
(* tutorial and tutorial -> menu: no handler of the page and no operation  *)
(* of the store it invokes makes any other change of phase.                *)
(***************************************************************************)
PhaseTransitions ==
    { <<"menu", "playing">>, <<"playing", "paused">>, <<"paused", "playing">>,
      <<"playing", "gameOver">>, <<"gameOver", "menu">>,
      <<"menu", "tutorial">>, <<"tutorial", "menu">> }

C23_PhaseTransitions ==
    [][game'.phase # game.phase
         => <<game.phase, game'.phase>> \in PhaseTransitions]_vars

(***************************************************************************)
(* C24: from every reachable state of the store, resetGame() yields phase  *)
(* menu, score 0, health 5, wave 1, combo 0, maxCombo 0, questionsAnswered *)
(* 0, correctAnswers 0, wrongAnswers 0, timeElapsed 0, no current question *)
(* and an empty monster list; a second resetGame() changes nothing.        *)
(***************************************************************************)
C24_ResetGame ==
    [][ResetGame =>
         /\ game'.phase = "menu"
         /\ game'.score = 0
         /\ game'.health = 5
         /\ game'.wave = 1
         /\ game'.combo = 0
         /\ game'.maxCombo = 0
         /\ game'.questionsAnswered = 0
         /\ game'.correctAnswers = 0
         /\ game'.wrongAnswers = 0
         /\ game'.timeElapsed = 0
         /\ game'.currentQuestion = NoQuestion
         /\ game'.monsters = <<>>
         /\ resetGame(game') = game']_vars

\* resetGame has just reset a game in which a right answer had been given
\* (the last answer, whose result ret still holds, was right).
C24_Witness ==
    /\ last = "resetGame"
    /\ ret = TRUE
    /\ game.phase = "menu"
    /\ game.score = 0
    /\ game.maxCombo = 0
    /\ game.health = 5

(***************************************************************************)
(* C25: answerQuestion never changes currentQuestion, whether the answer   *)
(* is right or wrong; with no current question it returns false and leaves *)
(* score, combo, maxCombo, questionsAnswered, correctAnswers,              *)
(* wrongAnswers, health and phase unchanged.                               *)
(***************************************************************************)
C25_AnswerKeepsQuestion ==
    [][\A a \in SubmittedAnswers :
         AnswerQuestion(a) =>
           /\ game'.currentQuestion = game.currentQuestion
           /\ (game.currentQuestion = NoQuestion =>
                 /\ ret' = FALSE
                 /\ game'.score = game.score
                 /\ game'.combo = game.combo
                 /\ game'.maxCombo = game.maxCombo
                 /\ game'.questionsAnswered = game.questionsAnswered
                 /\ game'.correctAnswers = game.correctAnswers
                 /\ game'.wrongAnswers = game.wrongAnswers
                 /\ game'.health = game.health
                 /\ game'.phase = game.phase)]_vars

\* An answer has been given with no current question, in a game in which a
\* question had been answered before, and returned false.
C25_Witness ==
    /\ last = "answerQuestion"
    /\ game.currentQuestion = NoQuestion
    /\ ret = FALSE
    /\ game.combo >= 1
    /\ game.score > 0
    /\ game.questionsAnswered >= 1

(***************************************************************************)
(* Vocabulary of the generator claims.                                     *)
(***************************************************************************)
\* easy < medium < hard.
Rank(difficulty) ==
    CASE difficulty = "easy" -> 1 [] difficulty = "medium" -> 2 [] OTHER -> 3

Apply(op, x, y) ==
    CASE op = "+" -> x + y [] op = "-" -> x - y [] OTHER -> x * y

\* The value of the expression a op1 b op2 c that begins a text:
\* multiplication binds before + and -, otherwise left to right.
ExpressionValue(text) ==
    LET a == text[1]
        op1 == text[2]
        b == text[3]
        op2 == text[4]
        c == text[5]
    IN  IF op1 = "x" THEN Apply(op2, a * b, c)
        ELSE IF op2 = "x" THEN Apply(op1, a, b * c)
        ELSE Apply(op2, Apply(op1, a, b), c)

(***************************************************************************)
(* C26: the difficulty generateQuestion(base, wave) resolves is easy when  *)
(* wave <= 3; for waves 4 to 6 easy if base is easy and medium otherwise;  *)
(* for waves 7 to 10 medium if base is easy and hard otherwise; hard when  *)
(* wave >= 11.  For a fixed base it never decreases as the wave grows.     *)
(***************************************************************************)
C26_WaveAdjustment ==
    last = "generateQuestion" =>
      LET base == request[1].difficulty
          wave == request[1].wave
          resolved == ret.difficulty
      IN  /\ (wave <= 3 => resolved = "easy")
          /\ (wave >= 4 /\ wave <= 6 =>
                resolved = (IF base = "easy" THEN "easy" ELSE "medium"))
          /\ (wave >= 7 /\ wave <= 10 =>
                resolved = (IF base = "easy" THEN "medium" ELSE "hard"))
          /\ (wave >= 11 => resolved = "hard")
          /\ \A later \in GenWaves :
                later >= wave =>
                  Rank(resolved) <= Rank(adjustDifficultyForWave(base, later))

\* A question was generated at wave 7 for base easy: its difficulty is medium.
C26_Witness ==
    /\ last = "generateQuestion"
    /\ request[1].difficulty = "easy"
    /\ request[1].wave = 7
    /\ ret.difficulty = "medium"
    /\ ret.timeLimit = 30000

(***************************************************************************)
(* C27: for every wave <= 3 and every requested difficulty,                *)
(* generateQuestion returns a question whose type is addition or           *)
(* subtraction.                                                            *)
(***************************************************************************)
C27_EasyTypes ==
    (last = "generateQuestion" /\ request[1].wave <= 3)
      => ret.type \in {"addition", "subtraction"}

(***************************************************************************)
(* C28: the answer of a mixed question equals the value of the expression  *)
(* its text shows, multiplication binding before addition and subtraction  *)
(* and otherwise left to right, for every pair of operators from +, -, x,  *)
(* both being multiplication included.                                     *)
(***************************************************************************)
C28_MixedAnswer ==
    (last = "createQuestion" /\ ret.type = "mixed")
      => ret.answer = ExpressionValue(ret.text)

(***************************************************************************)
(* C29: every question returned has an answer >= 0: a subtraction question *)
(* shows its operands with the larger first and answers their difference,  *)
(* and a mixed expression whose value is negative is replaced by an        *)
(* addition question.                                                      *)
(***************************************************************************)
C29_NonNegativeAnswer ==
    last = "createQuestion" =>
      /\ ret.answer >= 0
      /\ (ret.type = "subtraction" =>
            /\ ret.text[1] >= ret.text[3]
            /\ ret.answer = ret.text[1] - ret.text[3])
      /\ ( ( /\ request[1].type = "mixed"
             /\ ExpressionValue(mixedDraws(request[1].difficulty, request[1].rnd)) < 0 )
            => ret.type = "addition" )

\* A mixed expression of negative value was drawn and an addition question
\* returned.
C29_Witness ==
    /\ last = "createQuestion"
    /\ request[1].type = "mixed"
    /\ ExpressionValue(mixedDraws(request[1].difficulty, request[1].rnd)) < 0
    /\ ret.type = "addition"
    /\ ret.answer > 0

(***************************************************************************)
(* C30: a division question, at every difficulty, shows a divisor of at    *)
(* least 2 and a dividend that is an exact multiple of it, and its answer  *)
(* is dividend / divisor.                                                  *)
(***************************************************************************)
C30_ExactDivision ==
    (last = "createQuestion" /\ ret.type = "division") =>
      LET dividend == ret.text[1]
          divisor == ret.text[3]
      IN  /\ divisor >= 2
          /\ dividend % divisor = 0
          /\ dividend \div divisor = ret.answer

\* A hard division question with the smallest divisor, 3.
C30_Witness ==
    /\ last = "createQuestion"
    /\ ret.type = "division"
    /\ ret.difficulty = "hard"
    /\ ret.text[3] = 3
    /\ ret.answer >= 5
    /\ ret.text[1] = 3 * ret.answer

(***************************************************************************)
(* SpecFactory: createMonster applied at every wave and difficulty, with   *)
(* every draw of the spawn point and of the type.                          *)
(***************************************************************************)
MaxFactoryWave == 20
FactoryScale == 4

\* generateMonsterSpawnPoint, for the draws rnd = <<side, position>>; the
\* coordinate drawn along the side is kept to its integer part.
generateMonsterSpawnPoint(rnd) ==
    LET side == Floor(rnd[1], 4)
    IN  CASE side = 0 -> [x |-> Floor(rnd[2], CANVAS_WIDTH), y |-> 0 - SpawnMargin]
          [] side = 1 -> [x |-> CANVAS_WIDTH + SpawnMargin, y |-> Floor(rnd[2], CANVAS_HEIGHT)]
          [] side = 2 -> [x |-> Floor(rnd[2], CANVAS_WIDTH), y |-> CANVAS_HEIGHT + SpawnMargin]
          [] OTHER -> [x |-> 0 - SpawnMargin, y |-> Floor(rnd[2], CANVAS_HEIGHT)]

\* The index createMonster draws among the eligible types, for the draw r.
pickOf(wave, r) == Floor(r, Len(eligibleTypes(wave))) + 1

FactoryRequest(wave, difficulty, rnd) ==
    [ method |-> "createMonster", wave |-> wave, difficulty |-> difficulty, rnd |-> rnd ]

InitFactory ==
    /\ InitIdle
    /\ \E wave \in 0..MaxFactoryWave, difficulty \in Difficulties :
         \E t \in Draws(<<FactoryScale, FactoryScale, FactoryScale>>) :
           request = <<FactoryRequest(wave, difficulty, t)>>

CreateMonster ==
    /\ last = "init"
    /\ request # <<>>
    /\ request[1].method = "createMonster"
    /\ ret' = createMonster(request[1].wave, request[1].difficulty,
                            generateMonsterSpawnPoint(SubSeq(request[1].rnd, 1, 2)),
                            pickOf(request[1].wave, request[1].rnd[3]),
                            nextId + 1, now)
    /\ nextId' = nextId + 1
    /\ last' = "createMonster"
    /\ UNCHANGED <<generator, request, deferred, storeVars,
                   engine, now, timers, frames, calls, pausedAt>>

NextFactory == CreateMonster

SpecFactory == InitFactory /\ [][NextFactory]_vars

(***************************************************************************)
(* C31: the type of a created monster is one of the types eligible at its  *)
(* wave: basic at every wave, fast only when wave >= 3, tank only when     *)
(* wave >= 5, boss only when the wave is an exact multiple of 10; at wave  *)
(* 1 or 2 the monster is basic.                                            *)
(***************************************************************************)
C31_EligibleType ==
    last = "createMonster" =>
      LET wave == request[1].wave
      IN  /\ ret.type \in MonsterTypes
          /\ (ret.type = "fast" => wave >= 3)
          /\ (ret.type = "tank" => wave >= 5)
          /\ (ret.type = "boss" => wave % 10 = 0)
          /\ (wave \in {1, 2} => ret.type = "basic")

\* A boss is created at wave 20, after a draw that picks the last type.
C31_Witness ==
    /\ last = "createMonster"
    /\ request[1].wave = 20
    /\ ret.type = "boss"

(***************************************************************************)
(* C32: a created monster's health and maxHealth both equal                *)
(* ceil(base x multiplier), base 1 for fast, 2 for basic, 5 for tank, 15   *)
(* for boss, multiplier 0.8 easy, 1.0 medium, 1.2 hard; createMonster(1,   *)
(* easy) yields a basic monster with health 2.                             *)
(***************************************************************************)
C32_Health ==
    last = "createMonster" =>
      LET base == CASE ret.type = "fast" -> 1 [] ret.type = "basic" -> 2
                    [] ret.type = "tank" -> 5 [] ret.type = "boss" -> 15
          tenths == CASE request[1].difficulty = "easy" -> 8
                      [] request[1].difficulty = "medium" -> 10
                      [] request[1].difficulty = "hard" -> 12
          \* the least integer that is at least base * tenths / 10
          ceil == CHOOSE h \in 0..(2 * base) :
                    /\ 10 * h >= base * tenths
                    /\ 10 * (h - 1) < base * tenths
      IN  /\ ret.health = ceil
          /\ ret.maxHealth = ceil
          /\ ((request[1].wave = 1 /\ request[1].difficulty = "easy")
                => (ret.type = "basic" /\ ret.health = 2))

\* createMonster(1, easy): a basic monster of health 2; and a hard boss of
\* health 18 exists at wave 10.
C32_Witness ==
    /\ last = "createMonster"
    /\ \/ (request[1].wave = 1 /\ request[1].difficulty = "easy" /\ ret.health = 2)
       \/ (request[1].wave = 10 /\ request[1].difficulty = "hard"
             /\ ret.type = "boss" /\ ret.health = 18)

(***************************************************************************)
(* SpecDestroy: the engine under spawnMonster, destroyMonster,             *)
(* damageMonster, ticks and destruction timeouts, with the callbacks       *)
(* GameCanvas installs: onStateUpdate adds the engine's monsters to the    *)
(* store, onMonsterDestroyed removes the monster from the store and adds   *)
(* 5 x wave to the score.  The run ends before a monster can reach the     *)
(* player, and nothing else changes the score: the score counts the        *)
(* invocations of onMonsterDestroyed.                                      *)
(***************************************************************************)
MaxDestroyMonsters == 1   \* monsters spawned in one run of SpecDestroy
MaxDestroyTime == 1600    \* SpecDestroy ends at this time, ms

DestroyDelays == {400}

\* The engine becomes w, and the page handles the callbacks of the step.
Hosted(w) ==
    /\ Becomes(w)
    /\ game' = handleMonsterDestroyed(game, w.calls)

HostSpawnMonster(wave, difficulty, spawnPoint, pick) ==
    /\ pick \in 1..Len(eligibleTypes(wave))
    /\ LET w == spawnMonster(W, wave, difficulty, spawnPoint, pick, nextId + 1, now)
       IN  /\ Becomes(w)
           /\ game' = onStateUpdate(game, w.engine.monsters)
    /\ nextId' = nextId + 1
    /\ last' = "spawnMonster"
    /\ UNCHANGED <<generatorVars, now, pausedAt, ret, deferred>>

HostDestroyMonster(monsterId, withAnimation) ==
    /\ Hosted(destroyMonster(W, monsterId, withAnimation, now))
    /\ last' = "destroyMonster"
    /\ UNCHANGED <<generatorVars, now, nextId, pausedAt, ret, deferred>>

HostDamageMonster(monsterId, damage) ==
    /\ Hosted(damageMonster(W, monsterId, damage, now).w)
    /\ ret' = damageMonster(W, monsterId, damage, now).result
    /\ last' = "damageMonster"
    /\ UNCHANGED <<generatorVars, now, nextId, pausedAt, deferred>>

HostStart ==
    /\ Hosted(start(W, now, "none"))
    /\ last' = "start"
    /\ UNCHANGED <<generatorVars, now, nextId, pausedAt, ret, deferred>>

HostFrame(f) ==
    /\ f \in frames
    /\ Hosted(gameLoop([W EXCEPT !.frames = @ \ {f}], now, "none"))
    /\ last' = "frame"
    /\ UNCHANGED <<generatorVars, now, nextId, pausedAt, ret, deferred>>

HostTimeout(tm) ==
    /\ tm \in timers
    /\ tm.due <= now
    /\ Hosted(destroyTimeout([W EXCEPT !.timers = @ \ {tm}], tm.monsterId))
    /\ last' = "timeout"
    /\ UNCHANGED <<generatorVars, now, nextId, pausedAt, ret, deferred>>

NextDestroy ==
    \/ Cardinality(frames) < MaxFrames /\ HostStart
    \/ \E wave \in TickWaves, difficulty \in EngineDifficulties,
          spawnPoint \in EngineSpawnPoints, pick \in 1..4 :
          nextId < MaxDestroyMonsters
            /\ HostSpawnMonster(wave, difficulty, spawnPoint, pick)
    \/ \E monsterId \in 1..MaxDestroyMonsters, damage \in DamageAmounts :
          HostDamageMonster(monsterId, damage)
    \/ \E monsterId \in 1..MaxDestroyMonsters, withAnimation \in BOOLEAN :
          HostDestroyMonster(monsterId, withAnimation)
    \/ \E f \in frames : HostFrame(f)
    \/ \E tm \in timers : HostTimeout(tm)
    \/ \E d \in DestroyDelays : AdvanceTime(d, MaxDestroyTime)

SpecDestroy == InitEngine /\ [][NextDestroy]_vars

(***************************************************************************)
(* C33: for every monster id, onMonsterDestroyed is invoked at most once   *)
(* over any sequence of spawnMonster, destroyMonster, damageMonster, ticks *)
(* and timer expirations: no step invokes it twice for an id, and the      *)
(* score, to which each invocation adds 5 x wave, never exceeds 5 x wave   *)
(* for each monster spawned.                                               *)
(***************************************************************************)
C33_DestroyedOnce ==
    /\ \A id \in 1..nextId :
         Cardinality({i \in 1..Len(calls) :
                        calls[i].ev = "onMonsterDestroyed" /\ calls[i].id = id}) <= 1
    /\ game.score <= 5 * game.wave * nextId

(***************************************************************************)
(* SpecLoop: start(), pause() and stop() called at any moment, start()     *)
(* also while the engine runs, with the animation frames the calls leave   *)
(* pending.  A pending frame is a gameLoop callback the browser runs in    *)
(* its next animation frame: it runs every pending one.                    *)
(***************************************************************************)
MaxLoops == 2          \* SpecLoop: start() is called while fewer frames are pending
MaxLoopMonsters == 1   \* monsters spawned in one run of SpecLoop
MaxLoopTime == 51      \* SpecLoop ends at this time, ms

NextLoop ==
    \/ Cardinality(frames) < MaxLoops /\ Start("none")
    \/ Pause
    \/ Stop
    \/ \E wave \in EngineWaves, difficulty \in EngineDifficulties,
          spawnPoint \in EngineSpawnPoints, pick \in 1..4 :
          nextId < MaxLoopMonsters /\ SpawnMonster(wave, difficulty, spawnPoint, pick)
    \/ \E f \in frames : Frame(f, "none")
    \/ AdvanceTime(FrameMs, MaxLoopTime)

SpecLoop == InitEngine /\ [][NextLoop]_vars

(***************************************************************************)
(* C34: at most one tick loop is active per engine: after any sequence of  *)
(* start(), pause() and stop() calls at most one gameLoop callback is      *)
(* pending, so that an animation frame runs the update step at most once.  *)
(***************************************************************************)
C34_OneLoop == Cardinality(frames) <= 1

(***************************************************************************)
(* SpecProgress: the Game page under answers, the question timer, the wave *)
(* effect and its timeouts.  An effect runs at the render that follows the *)
(* change of the store, before any timeout; FairProgress adds that effects *)
(* and timers do run: the wave effect, the deferred timeouts and the       *)
(* question timer, which submits -999 when the time of the question is up. *)
(* A game is followed through its first MaxProgressAnswered answers: past  *)
(* the tenth answer and through the nine that follow it.                   *)
(***************************************************************************)
MaxProgressAnswered == 19   \* SpecProgress: answers handled in one game

ProgressAnswers == {7, 8}

\* The wave effect has its condition and has not run for this state.
WaveEffectDue ==
    /\ game.phase = "playing"
    /\ \A i \in 1..Len(game.monsters) : game.monsters[i].isDestroying
    /\ game.currentQuestion = NoQuestion
    /\ ~game.isSpawningMonster
    /\ game.questionsAnswered % 10 = 0
    /\ game.questionsAnswered > 0
    /\ Deferred("nextWave", 1500, <<game.phase>>) \notin deferred

\* The question timer finds no time remaining.
QuestionTimeout ==
    /\ game.phase = "playing"
    /\ game.currentQuestion # NoQuestion
    /\ game.questionsAnswered < MaxProgressAnswered
    /\ HandleAnswer(-999)

\* A timeout of the page runs, once the effects of the last render have.
ProgressDeferred == \E tm \in deferred : ~WaveEffectDue /\ RunDeferred(tm)

NextProgress ==
    \/ GameMount
    \/ \E answer \in ProgressAnswers :
          /\ game.questionsAnswered < MaxProgressAnswered
          /\ ~WaveEffectDue
          /\ HandleAnswer(answer)
    \/ ~WaveEffectDue /\ QuestionTimeout
    \/ WaveEffect
    \/ ProgressDeferred

SpecProgress == InitStore /\ [][NextProgress]_vars

FairProgress ==
    /\ SpecProgress
    /\ WF_vars(GameMount)
    /\ WF_vars(WaveEffect)
    /\ WF_vars(ProgressDeferred)
    /\ WF_vars(~WaveEffectDue /\ QuestionTimeout)

C36_GameOverFrozen ==
    [][(game.phase = "gameOver" /\ last' \notin {"resetGame", "handleQuitGame", "mount"})
         => /\ game'.score = game.score
            /\ game'.combo = game.combo
            /\ game'.maxCombo = game.maxCombo
            /\ game'.questionsAnswered = game.questionsAnswered
            /\ game'.correctAnswers = game.correctAnswers
            /\ game'.wrongAnswers = game.wrongAnswers]_vars

(***************************************************************************)
(* C37: in every reachable state of the store questionsAnswered equals     *)
(* correctAnswers + wrongAnswers, and each answerQuestion call made while  *)
(* a question is current increases questionsAnswered by exactly 1 and      *)
(* exactly one of correctAnswers and wrongAnswers by 1, the other staying. *)
(***************************************************************************)
C37_AnswersCounted ==
    [][/\ game.questionsAnswered = game.correctAnswers + game.wrongAnswers
       /\ game'.questionsAnswered = game'.correctAnswers + game'.wrongAnswers
       /\ \A a \in SubmittedAnswers :
            (AnswerQuestion(a) /\ game.currentQuestion # NoQuestion) =>
              /\ game'.questionsAnswered = game.questionsAnswered + 1
              /\ \/ /\ game'.correctAnswers = game.correctAnswers + 1
                    /\ game'.wrongAnswers = game.wrongAnswers
                 \/ /\ game'.correctAnswers = game.correctAnswers
                    /\ game'.wrongAnswers = game.wrongAnswers + 1]_vars

\* Three answers have been counted, the last one wrong, two of them right.
C37_Witness ==
    /\ last = "answerQuestion"
    /\ ret = FALSE
    /\ game.currentQuestion # NoQuestion
    /\ game.questionsAnswered = 3
    /\ game.correctAnswers = 2
    /\ game.wrongAnswers = 1

(***************************************************************************)
(* SpecPower: the store under takeDamage, heal, usePowerUp, answerQuestion,*)
(* nextWave and resetGame, with amounts 0..MaxAmount, while time passes    *)
(* (the cooldown of a power-up).                                           *)
(***************************************************************************)
MaxPowerAnswered == 2    \* SpecPower: answers counted in one game
MaxPowerTime == 40000    \* SpecPower ends at this time, ms

PowerDelays == {20000}

\* The types usePowerUp is called with: heal, shield (whose cooldown does
\* not pass before MaxPowerTime) and a type that no power-up has.
UsedPowerUpTypes == {"heal", "shield", "bomb"}

NextPower ==
    \/ \E amount \in 0..MaxAmount : TakeDamage(amount)
    \/ \E amount \in 0..MaxAmount : Heal(amount)
    \/ \E type \in UsedPowerUpTypes : UsePowerUp(type)
    \/ \E q \in Questions : SetCurrentQuestion(<<q>>)
    \/ \E a \in SubmittedAnswers :
          game.questionsAnswered < MaxPowerAnswered /\ AnswerQuestion(a)
    \/ NextWave
    \/ ResetGame
    \/ \E d \in PowerDelays : AdvanceTime(d, MaxPowerTime)

SpecPower == InitStore /\ [][NextPower]_vars

(***************************************************************************)
(* C38: in every state reachable by takeDamage, heal, usePowerUp,          *)
(* answerQuestion, nextWave and resetGame with non-negative amounts,       *)
(* 0 <= health <= maxHealth and combo <= maxCombo.                         *)
(***************************************************************************)
C38_HealthAndCombo ==
    /\ 0 <= game.health
    /\ game.health <= game.maxHealth
    /\ game.combo <= game.maxCombo

\* The heal power-up, used after its cooldown, has left the health at
\* maxHealth, in a game where a wrong answer had ended a combo.
C38_Witness ==
    /\ last = "usePowerUp"
    /\ game.powerUps["heal"].active
    /\ game.powerUps["heal"].lastUsed > 0
    /\ game.health = game.maxHealth
    /\ game.wrongAnswers = 1
    /\ game.combo = 0
    /\ game.maxCombo >= 1

(***************************************************************************)
(* C39: a monster's recorded spawn position is fixed on its first update   *)
(* to the position it was created at, and no later update changes it, for  *)
(* every spawn point, one with a coordinate equal to 0 included.           *)
(***************************************************************************)
C39_SpawnRecordedOnce ==
    [][\A monsterId \in IdsOf(engine.monsters) :
         UpdateMonster(monsterId) =>
           LET m == MonsterOf(engine, monsterId)
               after == MonsterOf(engine', monsterId)
           IN  IF m.spawn = <<>>
               THEN after.spawn = <<m.x, m.y>>
               ELSE after.spawn = m.spawn]_vars

(***************************************************************************)
(* C40: for every algebra question the generator returns, the answer x     *)
(* satisfies the equation shown in the text: a x = b for the form          *)
(* "ax = b", and a x + c = b, c being the constant shown, for the form     *)
(* "ax + c = b".                                                           *)
(***************************************************************************)
C40_AlgebraSolution ==
    (last = "createQuestion" /\ ret.type = "algebra") =>
      LET x == ret.answer
          a == ret.text[2]
      IN  IF ret.text[4] = "+"
          THEN a * x + ret.text[5] = ret.text[7]
          ELSE a * x = ret.text[5]

=============================================================================
